---- MODULE Spec2Model ----
(***************************************************************************)
(* Orbital-data lifecycle of the station tracker.                          *)
(*                                                                         *)
(* Two programs of the repository are modelled:                            *)
(*   - StationTracker (src/src/utils/stationTracker.ts) driven by the      *)
(*     React component App (src/src/components/App.tsx): specification     *)
(*     Spec (one page, time passing) and SpecSwitch (station switches);    *)
(*   - CSSTracker (src/css-monitor-extension/popup.js): specification      *)
(*     SpecCSS.                                                            *)
(*                                                                         *)
(* JavaScript runs the callbacks of one page on one thread, so every       *)
(* action below is one run-to-completion piece of a handler: from its      *)
(* start, or from the resumption after an await, up to the next await or   *)
(* its end.  The clock counts minutes since the Unix epoch (Date.now()     *)
(* divided by 60000): all the periods and ages the code compares are       *)
(* whole minutes.                                                          *)
(***************************************************************************)
EXTENDS Integers, Sequences, FiniteSets, Bags, TLC

VARIABLES
    clock,      \* Date.now(), in minutes
    ticks,      \* number of clock advances so far (bounds the run)
    clicks,     \* number of clicks on the refresh button of this page (bounds the run)
    store,      \* chrome.storage.local: station type -> [tle, timestamp]
    trackers,   \* the StationTracker objects created by App, oldest first
    fetches,    \* bag of fetchFromNetwork() invocations suspended at an await
    out,        \* what the last action emitted, requested and received
    css,        \* the CSSTracker object of popup.js
    cssStore,   \* chrome.storage.local keys cssTracker_tle / cssTracker_timestamp
    cssJobs,    \* bag of suspended loadData/forceRefresh invocations of popup.js
    cssOut,     \* what the last popup.js action emitted, requested and received
    calc        \* the last call of a function of the trackers: [op, arg, res]

\* No function has been called yet.
NoCalc == [op |-> "none", arg |-> <<>>, res |-> <<>>]

tsVars == <<trackers, fetches, store, out>>
cssVars == <<css, cssStore, cssJobs, cssOut>>
vars == <<clock, ticks, clicks, store, trackers, fetches, out, css, cssStore, cssJobs, cssOut, calc>>

(***************************************************************************)
(* Bounds of the model.                                                    *)
(***************************************************************************)
MaxTicks == 1
MaxClicks == 1
MaxTrackers == 2
MaxInFlight == 2
StartClock == 29188800

\* The minutes the clock may advance by in one step: to one minute short of
\* the cache's time to live, to it, and one minute beyond it.
ClockSteps == {359, 360, 361}

(***************************************************************************)
(* Program constants, in minutes.                                          *)
(***************************************************************************)
cacheExpiryTime == 360
tlePeriod == 60

StationTypes == {"css", "iss"}
NoTle == "null"
\* First entries of a response body: the tracked station's record, its record
\* with elements no propagation state can be built from, and the record of
\* another object (another NORAD_CAT_ID and OBJECT_NAME).
NetTles == {"netA", "netBad", "netOther"}
describesStation(tle) == tle # "netOther"
\* EPOCH of the configured fallback records, 2024-01-01T00:00:00Z, in minutes.
fallbackEpoch == 28401120
fallbackTLE(st) == IF st = "css" THEN "fallback_css" ELSE "fallback_iss"
knownValidTLE(st) == IF st = "css" THEN "known_css" ELSE "known_iss"

\* The validity code satellite.twoline2satrec leaves in the state it builds
\* from the lines encoded from element record tle.
satrecError(tle) == IF tle = "netBad" THEN 1 ELSE 0

NoSat == [from |-> "null", error |-> 0]
twoline2satrec(tle) == [from |-> tle, error |-> satrecError(tle)]

\* Outcomes of satellite.propagate at one instant: a position; no position
\* with the validity code left alone; no position and the code set nonzero.
PropOutcomes == {"ok", "none", "err"}

\* Responses of one HTTP exchange of StationTracker.fetchFromNetwork: fetch()
\* rejects; the status is not ok; the body is not a non-empty array; or the
\* body is an array whose first entry is the named element record.
FailedResponses == {"reject", "http_error", "bad_body"}
Responses == FailedResponses \cup NetTles

NoRecord == [tle |-> NoTle, timestamp |-> 0]

Ev(t, kind, type, tag, val) == [t |-> t, kind |-> kind, type |-> type, tag |-> tag, val |-> val]

(***************************************************************************)
(* StationTracker.  A context c holds the tracker tr a handler runs on,    *)
(* the instant now, and the set out of events emitted so far by the        *)
(* handler.                                                                *)
(***************************************************************************)
NewTracker(id, st) ==
    [ id |-> id, stationType |-> st,
      currentTLE |-> NoTle, satrec |-> NoSat, tleTimestamp |-> 0,
      autoUpdateInterval |-> FALSE, tleUpdateInterval |-> FALSE,
      timeDisplayInterval |-> FALSE,
      live |-> [auto |-> 0, tle |-> 0, label |-> 0],
      tleDue |-> 0,
      initPc |-> "cache" ]

Emit(c, kind, type, tag, val) ==
    [c EXCEPT !.out = @ \cup {Ev(c.tr.id, kind, type, tag, val)}]

\* Faulty variant of updateStatus: the type given by the caller is dropped
\* and the default of the parameter, the empty string, is emitted.
updateStatusDefault(c, tag, type) == Emit(c, "status", "", tag, 0)

updateStatus(c, tag, type) == Emit(c, "status", type, tag, 0)

\* One timer of kind k is cleared when its handle is non-null.
clearOne(n, handle) == IF handle /\ n > 0 THEN n - 1 ELSE n

stopBackgroundUpdates(c) ==
    [c EXCEPT
        !.tr.live = [auto  |-> clearOne(@.auto, c.tr.autoUpdateInterval),
                     tle   |-> clearOne(@.tle, c.tr.tleUpdateInterval),
                     label |-> clearOne(@.label, c.tr.timeDisplayInterval)],
        !.tr.autoUpdateInterval = FALSE,
        !.tr.tleUpdateInterval = FALSE,
        !.tr.timeDisplayInterval = FALSE,
        !.tr.tleDue = 0]

\* Faulty variant of startBackgroundUpdates: the scheduler is started without
\* stopping the running timers.
startWithoutStop(c) ==
    [c EXCEPT
        !.tr.live = [auto |-> @.auto + 1, tle |-> @.tle + 1, label |-> @.label + 1],
        !.tr.autoUpdateInterval = TRUE,
        !.tr.tleUpdateInterval = TRUE,
        !.tr.timeDisplayInterval = TRUE,
        !.tr.tleDue = c.now + tlePeriod]

startBackgroundUpdates(c) ==
    LET s == stopBackgroundUpdates(c) IN
    [s EXCEPT
        !.tr.live = [auto |-> @.auto + 1, tle |-> @.tle + 1, label |-> @.label + 1],
        !.tr.autoUpdateInterval = TRUE,
        !.tr.tleUpdateInterval = TRUE,
        !.tr.timeDisplayInterval = TRUE,
        !.tr.tleDue = c.now + tlePeriod]

\* The data-update event: which propagation state the position comes from,
\* which element record the orbital parameters come from, and the label time.
emitData(c) == Emit(c, "data", c.tr.currentTLE, c.tr.satrec.from, c.tr.tleTimestamp)

\* console.error of updateDisplay: why this call shows no position.
logError(c, tag) == Emit(c, "log", "error", tag, 0)

\* updateDisplay on the state useFallbackData has just built and tested: the
\* test propagation has already set the validity code when it failed, so the
\* branch that calls useFallbackData again is not reached.
displayTested(c, pf) ==
    IF c.tr.satrec = NoSat \/ c.tr.currentTLE = NoTle THEN logError(c, "missing")
    ELSE IF c.tr.satrec.error # 0 THEN logError(c, "invalid")
    ELSE IF pf = "ok" THEN emitData(c)
    ELSE logError(c, "no_position")

useFallbackData(c, pf) ==
    LET built == [c EXCEPT !.tr.satrec = twoline2satrec(knownValidTLE(c.tr.stationType))]
        tested == IF pf = "err" THEN [built EXCEPT !.tr.satrec.error = 1] ELSE built
        c1 == [tested EXCEPT !.tr.currentTLE = fallbackTLE(c.tr.stationType)]
        c2 == displayTested(c1, pf)
        c3 == [c2 EXCEPT !.tr.tleTimestamp = c.now]
        c4 == IF c3.tr.tleTimestamp # 0 THEN displayTested(c3, pf) ELSE c3
        c5 == updateStatus(c4, "fallback", "error")
    IN  startBackgroundUpdates(c5)

\* po is the outcome of propagating a state built from an element record,
\* pf the outcome of propagating the state built from the known valid lines.
updateDisplay(c, po, pf) ==
    IF c.tr.satrec = NoSat \/ c.tr.currentTLE = NoTle THEN logError(c, "missing")
    ELSE IF c.tr.satrec.error # 0 THEN logError(c, "invalid")
    ELSE LET o == IF c.tr.satrec.from = knownValidTLE(c.tr.stationType) THEN pf ELSE po IN
         CASE o = "ok" -> emitData(c)
           [] o = "none" -> logError(c, "no_position")
           [] OTHER -> useFallbackData(logError([c EXCEPT !.tr.satrec.error = 1],
                                                "no_position"), pf)

refreshTleTimeDisplay(c, po, pf) ==
    IF c.tr.tleTimestamp # 0 THEN updateDisplay(c, po, pf) ELSE c

updateTleTime(c, timestamp, po, pf) ==
    refreshTleTimeDisplay([c EXCEPT !.tr.tleTimestamp = timestamp], po, pf)

cleanup(c) == stopBackgroundUpdates(c)

(***************************************************************************)
(* Cache.                                                                  *)
(***************************************************************************)
\* Faulty variant of loadFromCache: a record aged exactly the time to live
\* still counts as fresh.
loadFromCacheInclusive(st, now, up) ==
    IF ~up THEN NoRecord
    ELSE IF store[st].tle # NoTle /\ store[st].timestamp # 0
            /\ now - store[st].timestamp <= cacheExpiryTime
         THEN store[st]
         ELSE NoRecord

\* What loadFromCache returns: the stored record, or NoRecord for null.  up
\* says whether chrome.storage.local answers the get (it throws otherwise).
loadFromCache(st, now, up) ==
    IF ~up THEN NoRecord
    ELSE IF store[st].tle # NoTle /\ store[st].timestamp # 0
            /\ now - store[st].timestamp < cacheExpiryTime
         THEN store[st]
         ELSE NoRecord

\* Whether loadFromCache throws to its caller: its catch clause logs the
\* failure of the get and returns null.
loadFromCacheThrows(up) == FALSE

\* The store after saveToCache(tle): a failing set is caught and logged.
MinutesPerDay == 1440
\* EPOCH of an element record: the instant its elements were determined.
\* A record served by the network was determined a day before the page
\* first opened.
epochOf(tle) ==
    IF tle \in {"fallback_css", "fallback_iss"} THEN fallbackEpoch
    ELSE StartClock - MinutesPerDay

\* Faulty variant of saveToCache: the record is stamped with the epoch of its
\* elements.
saveToCacheEpoch(st, tle, now, up) ==
    IF up THEN [store EXCEPT ![st] = [tle |-> tle, timestamp |-> epochOf(tle)]]
    ELSE store

\* Faulty variant of saveToCache: every station's record is written under the
\* keys of the extension's first station.
saveToCacheShared(st, tle, now, up) ==
    IF up THEN [store EXCEPT !["css"] = [tle |-> tle, timestamp |-> now]]
    ELSE store

saveToCache(st, tle, now, up) ==
    IF up THEN [store EXCEPT ![st] = [tle |-> tle, timestamp |-> now]]
    ELSE store

\* Faulty variant of saveToCacheThrows: the failure of the set escapes
\* saveToCache.
saveToCacheRethrows(up) == ~up

\* Whether saveToCache throws to its caller: its catch clause only logs.
saveToCacheThrows(up) == FALSE

(***************************************************************************)
(* Handlers of StationTracker, cut at their awaits.                        *)
(***************************************************************************)
Ctx(t) == [tr |-> trackers[t], now |-> clock, out |-> {}]

Fetch(t, origin, pc) == [t |-> t, origin |-> origin, pc |-> pc]
InFlight == BagCardinality(fetches)
Suspended == BagToSet(fetches)
AddFetch(b, f) == b (+) SetToBag({f})
DelFetch(b, f) == b (-) SetToBag({f})

\* Faulty variant of fetchFromNetworkStart: the timers are stopped while the
\* request is awaited.
fetchFromNetworkBlocking(c, origin) ==
    Emit(stopBackgroundUpdates(c), "request", origin, "apiUrl", 0)

\* The synchronous start of fetchFromNetwork(): fetch(apiUrl) is issued.
fetchFromNetworkStart(c, origin) == Emit(c, "request", origin, "apiUrl", 0)

\* Faulty variant of initializeStart: the scheduler is started before the
\* acquisition.
initializeStartingTimers(c) ==
    startBackgroundUpdates(updateStatus(c, "loading_init", "loading"))

\* initialize() up to its first await: the loading status, then loadFromCache.
initializeStart(c) == updateStatus(c, "loading_init", "loading")

\* Faulty variant of initializeResume: the cache-hit branch does not return,
\* so the network is asked too.
initializeWithoutReturn(c, cachedData, po, pf) ==
    IF cachedData # NoRecord
    THEN LET c1 == [c EXCEPT !.tr.currentTLE = cachedData.tle,
                             !.tr.satrec = twoline2satrec(cachedData.tle)]
             c2 == updateDisplay(c1, po, pf)
             c3 == updateTleTime(c2, cachedData.timestamp, po, pf)
             c4 == Emit(c3, "status", "online", "cache", c.now - cachedData.timestamp)
             c5 == startBackgroundUpdates(c4)
         IN  [c |-> [fetchFromNetworkStart(c5, "init") EXCEPT !.tr.initPc = "net"],
              fetch |-> TRUE]
    ELSE [c |-> [fetchFromNetworkStart(c, "init") EXCEPT !.tr.initPc = "net"],
          fetch |-> TRUE]

\* initialize() resumed with what loadFromCache returned.  fetch says whether
\* the handler went on to call fetchFromNetwork().
initializeResume(c, cachedData, po, pf) ==
    IF cachedData # NoRecord
    THEN LET c1 == [c EXCEPT !.tr.currentTLE = cachedData.tle,
                             !.tr.satrec = twoline2satrec(cachedData.tle)]
             c2 == updateDisplay(c1, po, pf)
             c3 == updateTleTime(c2, cachedData.timestamp, po, pf)
             c4 == Emit(c3, "status", "online", "cache", c.now - cachedData.timestamp)
             c5 == startBackgroundUpdates(c4)
         IN  [c |-> [c5 EXCEPT !.tr.initPc = "done"], fetch |-> FALSE]
    ELSE [c |-> [fetchFromNetworkStart(c, "init") EXCEPT !.tr.initPc = "net"],
          fetch |-> TRUE]

\* Faulty variant of onFetchError: the catch clause of initialize() reports
\* the failure and does not load the fallback data.
onFetchErrorWithoutFallback(c, origin, pf) ==
    CASE origin = "init" ->
            [updateStatus(c, "net_fail", "error") EXCEPT !.tr.initPc = "done"]
      [] origin = "force" -> updateStatus(c, "refresh_fail", "error")
      [] OTHER -> c

\* The catch clause of the caller of a fetchFromNetwork() that threw.
onFetchError(c, origin, pf) ==
    CASE origin = "init" ->
            [useFallbackData(updateStatus(c, "net_fail", "error"), pf)
                EXCEPT !.tr.initPc = "done"]
      [] origin = "force" -> updateStatus(c, "refresh_fail", "error")
      [] OTHER -> c

\* fetchFromNetwork() resumed with a usable body: the first entry becomes the
\* element record and saveToCache is called with it.
fetchFromNetworkBody(c, tle, up) ==
    Emit([c EXCEPT !.tr.currentTLE = tle],
         "set", IF up THEN "ok" ELSE "fail", tle, c.now)

\* fetchFromNetwork() resumed after saveToCache.
fetchFromNetworkRest(c, origin, po, pf) ==
    LET c1 == [c EXCEPT !.tr.satrec = twoline2satrec(c.tr.currentTLE)]
        done == IF origin = "init" THEN "done" ELSE c.tr.initPc
    IN  IF c1.tr.satrec.error = 0
        THEN LET c2 == IF po = "err" THEN [c1 EXCEPT !.tr.satrec.error = 1] ELSE c1
                 c3 == updateDisplay(c2, po, pf)
                 c4 == updateTleTime(c3, c.now, po, pf)
                 c5 == updateStatus(c4, "fetch_ok", "online")
                 c6 == startBackgroundUpdates(c5)
             IN  [c6 EXCEPT !.tr.initPc = done]
        ELSE [useFallbackData(c1, pf) EXCEPT !.tr.initPc = done]

forceRefresh(c) ==
    fetchFromNetworkStart(updateStatus(c, "refreshing", "loading"), "force")

Put(t, c) == [trackers EXCEPT ![t] = c.tr]

Current == Len(trackers)

(***************************************************************************)
(* Actions of App and StationTracker.                                      *)
(***************************************************************************)
InitCacheDone(t) ==
    /\ trackers[t].initPc = "cache"
    /\ \E po \in PropOutcomes, pf \in PropOutcomes, up \in BOOLEAN :
        LET cachedData == loadFromCache(trackers[t].stationType, clock, up)
            c0 == Emit(Ctx(t), "get", IF up THEN "ok" ELSE "fail",
                       cachedData.tle, cachedData.timestamp)
            r  == IF loadFromCacheThrows(up)
                  THEN [c |-> onFetchError(c0, "init", pf), fetch |-> FALSE]
                  ELSE initializeResume(c0, cachedData, po, pf)
        IN  /\ r.fetch => InFlight < MaxInFlight
            /\ trackers' = Put(t, r.c)
            /\ fetches' = IF r.fetch THEN AddFetch(fetches, Fetch(t, "init", "net")) ELSE fetches
            /\ out' = r.c.out
    /\ UNCHANGED <<clock, ticks, clicks, store, cssVars, calc>>

FetchResponse(f) ==
    /\ f.pc = "net"
    /\ \E resp \in Responses, pf \in PropOutcomes, up \in BOOLEAN :
        LET c0 == Emit(Ctx(f.t), "response", f.origin, resp, 0)
            c1 == IF resp \in FailedResponses THEN c0
                  ELSE fetchFromNetworkBody(c0, resp, up)
        IN
        IF resp \in FailedResponses \/ saveToCacheThrows(up)
        THEN LET c == onFetchError(c1, f.origin, pf) IN
             /\ trackers' = Put(f.t, c)
             /\ fetches' = DelFetch(fetches, f)
             /\ store' = store
             /\ out' = c.out
        ELSE LET c == c1 IN
             /\ trackers' = Put(f.t, c)
             /\ fetches' = AddFetch(DelFetch(fetches, f), [f EXCEPT !.pc = "save"])
             /\ store' = saveToCache(c.tr.stationType, resp, clock, up)
             /\ out' = c.out
    /\ UNCHANGED <<clock, ticks, clicks, cssVars, calc>>

FetchSaved(f) ==
    /\ f.pc = "save"
    /\ \E po \in PropOutcomes, pf \in PropOutcomes :
        LET c == fetchFromNetworkRest(Emit(Ctx(f.t), "saved", f.origin, "fetch", 0),
                                      f.origin, po, pf) IN
        /\ trackers' = Put(f.t, c)
        /\ fetches' = DelFetch(fetches, f)
        /\ out' = c.out
    /\ UNCHANGED <<clock, ticks, clicks, store, cssVars, calc>>

\* Controls.onRefresh -> App.handleRefresh -> tracker.forceRefresh().
ForceRefresh ==
    /\ InFlight < MaxInFlight
    /\ clicks < MaxClicks
    /\ clicks' = clicks + 1
    /\ LET c == forceRefresh(Ctx(Current)) IN
        /\ trackers' = Put(Current, c)
        /\ fetches' = AddFetch(fetches, Fetch(Current, "force", "net"))
        /\ out' = c.out
    /\ UNCHANGED <<clock, ticks, store, cssVars, calc>>

\* The callback of tleUpdateInterval.
TleTimerFire(t) ==
    /\ trackers[t].live.tle > 0
    /\ clock >= trackers[t].tleDue
    /\ InFlight < MaxInFlight
    /\ LET c0 == [Ctx(t) EXCEPT !.tr.tleDue = clock + tlePeriod]
           c  == fetchFromNetworkStart(c0, "timer")
       IN  /\ trackers' = Put(t, c)
           /\ fetches' = AddFetch(fetches, Fetch(t, "timer", "net"))
           /\ out' = c.out
    /\ UNCHANGED <<clock, ticks, clicks, store, cssVars, calc>>

\* The callback of autoUpdateInterval.
AutoTick(t) ==
    /\ trackers[t].live.auto > 0
    /\ \E po \in PropOutcomes, pf \in PropOutcomes :
        LET c == updateDisplay(Ctx(t), po, pf) IN
        /\ trackers' = Put(t, c)
        /\ out' = c.out
    /\ UNCHANGED <<clock, ticks, clicks, store, fetches, cssVars, calc>>

\* The callback of timeDisplayInterval.  Its five-minute period is not
\* tracked: it may fire at any instant at which the timer is active.
LabelTick(t) ==
    /\ trackers[t].live.label > 0
    /\ \E po \in PropOutcomes, pf \in PropOutcomes :
        LET c == refreshTleTimeDisplay(Ctx(t), po, pf) IN
        /\ trackers' = Put(t, c)
        /\ out' = c.out
    /\ UNCHANGED <<clock, ticks, clicks, store, fetches, cssVars, calc>>

\* The first run of App's effect: a tracker is created and initialize() runs
\* up to the await of loadFromCache.
Mounted(st) == initializeStart([tr |-> NewTracker(1, st), now |-> clock, out |-> {}])

\* StationSelector -> App.handleStationChange: the effect's cleanup runs on
\* the old tracker, then the effect runs again for the new station.
SwitchStation(st) ==
    /\ st # trackers[Current].stationType
    /\ Len(trackers) < MaxTrackers
    /\ LET old == cleanup(Ctx(Current))
           new == initializeStart([tr |-> NewTracker(Current + 1, st),
                                   now |-> clock, out |-> old.out])
       IN  /\ trackers' = Append(Put(Current, old), new.tr)
           /\ out' = new.out
    /\ UNCHANGED <<clock, ticks, clicks, store, fetches, cssVars, calc>>

\* The page is closed and opened again: every object of the old page is
\* gone with its timers and pending promises, the store persists.
Reopen ==
    /\ trackers' = <<Mounted("css").tr>>
    /\ fetches' = EmptyBag
    /\ out' = Mounted("css").out
    /\ clicks' = 0
    /\ UNCHANGED <<clock, ticks, store, cssVars, calc>>

\* Time passes.
Advance(d) ==
    /\ ticks < MaxTicks
    /\ clock' = clock + d
    /\ ticks' = ticks + 1
    /\ out' = {}
    /\ cssOut' = {}
    /\ UNCHANGED <<clicks, store, trackers, fetches, css, cssStore, cssJobs, calc>>

(***************************************************************************)
(* CSSTracker of the browser extension (popup.js).  One tracker per popup; *)
(* the store is chrome.storage.local.  Element records are named by what   *)
(* the validation of fetchFromNetwork looks at: OBJECT_NAME and            *)
(* NORAD_CAT_ID.  The map of the second tab is outside the model, so       *)
(* updateOrbitPath and the 30-second orbit timer's callback change nothing *)
(* of the state below.  stopBackgroundUpdates is called only by the        *)
(* beforeunload listener, behind window.cssTracker, which is never         *)
(* assigned: no run reaches it.                                            *)
(***************************************************************************)
cssCatalogNumber == 48274
cssCacheExpiryTime == 360
cssFallbackEpoch == 29160153

\* NORAD_CAT_ID of a record; "anon" is the station's record without a name.
catalogOf(rec) ==
    CASE rec \in {"tianhe", "anon"} -> cssCatalogNumber
      [] rec = "wentian" -> 53239
      [] OTHER -> 25544

hasName(rec) == rec \in {"tianhe", "wentian", "zarya"}

\* OBJECT_NAME.includes("CSS") || OBJECT_NAME.includes("TIANHE").
nameIncludes(rec) == rec \in {"tianhe", "wentian"}

\* The bodies response.json() can deliver.  "text" is a JSON string, whose
\* element 0 is its first character; "object" has no length.
Bodies == {"empty", "one", "group", "modules", "others", "unnamed", "text", "object"}

isArray(body) == body \notin {"text", "object"}

itemsOf(body) ==
    CASE body = "one" -> <<"tianhe">>
      [] body = "group" -> <<"zarya", "tianhe">>
      [] body = "modules" -> <<"wentian", "tianhe">>
      [] body = "others" -> <<"zarya">>
      [] body = "unnamed" -> <<"zarya", "anon">>
      [] body = "text" -> <<"junk">>
      [] OTHER -> <<>>

cssFound(rec) == hasName(rec) /\ (nameIncludes(rec) \/ catalogOf(rec) = cssCatalogNumber)

\* Array.prototype.find over the collection: the first hit, or NoTle.
findCss(items) ==
    IF \E k \in 1..Len(items) : cssFound(items[k])
    THEN items[CHOOSE k \in 1..Len(items) :
                   cssFound(items[k]) /\ \A m \in 1..(k - 1) : ~ cssFound(items[m])]
    ELSE NoTle

\* The data the loop of fetchFromNetwork takes from one response body; <<>>
\* when the body is passed over.
acceptResponse(body) ==
    IF Len(itemsOf(body)) > 0
    THEN IF isArray(body)
         THEN IF findCss(itemsOf(body)) # NoTle THEN <<findCss(itemsOf(body))>>
              ELSE IF catalogOf(itemsOf(body)[1]) = cssCatalogNumber THEN itemsOf(body)
              ELSE <<>>
         ELSE itemsOf(body)
    ELSE <<>>

CssResponses == FailedResponses \cup Bodies

NewCss ==
    [currentTLE |-> NoTle, satrec |-> NoTle, tleTimestamp |-> 0, tleSource |-> "null",
     autoUpdateInterval |-> FALSE, tleUpdateInterval |-> FALSE,
     orbitUpdateInterval |-> FALSE, timeDisplayInterval |-> FALSE,
     live |-> [auto |-> 0, tle |-> 0, orbit |-> 0, label |-> 0],
     tleDue |-> 0]

CssJob(origin, pc, i, data, lastError) ==
    [origin |-> origin, pc |-> pc, i |-> i, data |-> data, lastError |-> lastError]

CssCtx == [tr |-> css, now |-> clock, out |-> {}]

CssEmit(c, kind, type, tag, val) == [c EXCEPT !.out = @ \cup {Ev(0, kind, type, tag, val)}]

cssUpdateStatus(c, tag, type) == CssEmit(c, "status", type, tag, 0)

\* satellite.json2satrec: the propagation state built from a record.
json2satrec(tle) == tle

cssUpdateDisplay(c, po) ==
    IF c.tr.satrec = NoTle \/ c.tr.currentTLE = NoTle THEN c
    ELSE IF po # "ok" THEN cssUpdateStatus(c, "calc_fail", "error")
    ELSE CssEmit(c, "data", c.tr.currentTLE, c.tr.satrec, c.tr.tleTimestamp)

cssRefreshTleTimeDisplay(c) ==
    IF c.tr.tleTimestamp = 0 \/ c.tr.tleSource = "null" THEN c
    ELSE CssEmit(c, "label", c.tr.tleSource, "tleUpdateTime", c.now - c.tr.tleTimestamp)

cssUpdateTleTime(c, timestamp, source) ==
    LET c1 == cssRefreshTleTimeDisplay(
                  [c EXCEPT !.tr.tleTimestamp = timestamp, !.tr.tleSource = source])
    IN  [c1 EXCEPT !.tr.live.label = clearOne(@, c.tr.timeDisplayInterval) + 1,
                   !.tr.timeDisplayInterval = TRUE]

cssStartBackgroundUpdates(c) ==
    IF c.tr.autoUpdateInterval THEN c
    ELSE [c EXCEPT !.tr.live.auto = @ + 1, !.tr.live.tle = @ + 1, !.tr.live.orbit = @ + 1,
                   !.tr.autoUpdateInterval = TRUE,
                   !.tr.tleUpdateInterval = TRUE,
                   !.tr.orbitUpdateInterval = TRUE,
                   !.tr.tleDue = c.now + cssCacheExpiryTime]

cssUseFallbackData(c, po) ==
    LET c1 == [c EXCEPT !.tr.currentTLE = "fallback_popup",
                        !.tr.satrec = json2satrec("fallback_popup")]
        c2 == cssUpdateDisplay(c1, po)
        c3 == cssUpdateTleTime(c2, cssFallbackEpoch, "fallback")
        c4 == CssEmit(c3, "status", "online", "fallback",
                      (c.now - cssFallbackEpoch) \div MinutesPerDay)
    IN  cssStartBackgroundUpdates(c4)

cssLoadFromCache(now, up) ==
    IF ~up THEN NoRecord
    ELSE IF cssStore.tle # NoTle /\ cssStore.timestamp # 0
            /\ now - cssStore.timestamp < cssCacheExpiryTime
         THEN cssStore
         ELSE NoRecord

cssSaveToCache(tle, now, up) ==
    IF up THEN [tle |-> tle, timestamp |-> now] ELSE cssStore

\* loadData() up to the await of loadFromCache.
cssLoadDataStart(c) == cssUpdateStatus(c, "loading", "loading")

\* The catch clauses of loadData and of forceRefresh.
cssOnFetchError(c, origin, po) ==
    IF origin = "force"
    THEN cssUseFallbackData(cssUpdateStatus(c, "refresh_fail", "error"), po)
    ELSE cssUseFallbackData(cssUpdateStatus(c, "net_fail", "error"), po)

\* The callback the constructor chains to loadData().
cssConstructorThen(c, origin) ==
    IF origin = "load" /\ c.tr.satrec # NoTle THEN cssStartBackgroundUpdates(c) ELSE c

cssRequest(c, origin, i) == CssEmit(c, "request", origin, "apiUrls", i)

\* json2satrec is library code outside the repository: what it does with a
\* value that is no element record (a character of a JSON string) is left
\* open between throwing and returning a state that cannot be propagated.
JsonOutcomes == {"built", "throws"}
json2satrecThrows(tle, jo) == tle = "junk" /\ jo = "throws"
propagated(tle, po) == IF tle = "junk" THEN "none" ELSE po

\* loadData() resumed with what loadFromCache returned.
cssLoadDataResume(c, origin, cachedData, po, jo) ==
    IF cachedData # NoRecord
    THEN IF json2satrecThrows(cachedData.tle, jo)
         THEN [c |-> cssOnFetchError([c EXCEPT !.tr.currentTLE = cachedData.tle], origin, po),
               fetch |-> FALSE]
         ELSE LET c1 == [c EXCEPT !.tr.currentTLE = cachedData.tle,
                                  !.tr.satrec = json2satrec(cachedData.tle)]
                  c2 == cssUpdateDisplay(c1, propagated(cachedData.tle, po))
                  c3 == cssUpdateTleTime(c2, cachedData.timestamp, "cache")
                  c4 == CssEmit(c3, "status", "online", "cache", c.now - cachedData.timestamp)
                  c5 == cssStartBackgroundUpdates(c4)
              IN  [c |-> cssConstructorThen(c5, origin), fetch |-> FALSE]
    ELSE [c |-> cssRequest(c, origin, 0), fetch |-> TRUE]

\* fetchFromNetwork() resumed after saveToCache.
cssFetchRest(c, origin, po, jo) ==
    IF json2satrecThrows(c.tr.currentTLE, jo)
    THEN cssOnFetchError(c, origin, po)
    ELSE LET c1 == [c EXCEPT !.tr.satrec = json2satrec(c.tr.currentTLE)]
             c2 == cssUpdateDisplay(c1, propagated(c.tr.currentTLE, po))
             c3 == cssUpdateTleTime(c2, c.now, "network")
             c4 == cssUpdateStatus(c3, "updated", "online")
             c5 == cssStartBackgroundUpdates(c4)
         IN  cssConstructorThen(c5, origin)

cssForceRefresh(c) == cssRequest(cssUpdateStatus(c, "refreshing", "loading"), "force", 0)

CssInFlight == BagCardinality(cssJobs)
CssSuspended == BagToSet(cssJobs)

(***************************************************************************)
(* Actions of the popup.                                                   *)
(***************************************************************************)
CssCacheDone(j) ==
    /\ j.pc = "cache"
    /\ \E po \in {"ok", "none"}, jo \in JsonOutcomes, up \in BOOLEAN :
        LET cachedData == cssLoadFromCache(clock, up)
            c0 == CssEmit(CssCtx, "get", IF up THEN "ok" ELSE "fail",
                          cachedData.tle, cachedData.timestamp)
            r  == cssLoadDataResume(c0, j.origin, cachedData, po, jo)
        IN  /\ css' = r.c.tr
            /\ cssJobs' = IF r.fetch
                          THEN AddFetch(DelFetch(cssJobs, j),
                                        CssJob(j.origin, "fetch", 0, NoTle, FALSE))
                          ELSE DelFetch(cssJobs, j)
            /\ cssOut' = r.c.out
    /\ UNCHANGED <<clock, ticks, clicks, cssStore, tsVars, calc>>

\* One endpoint has answered, or failed, the request of the loop's round i.
CssFetchResponse(j) ==
    /\ j.pc = "fetch"
    /\ \E resp \in CssResponses, po \in {"ok", "none"}, up \in BOOLEAN :
        LET c0 == CssEmit(CssCtx, "response", j.origin, resp, j.i)
            data == IF resp \in FailedResponses THEN <<>> ELSE acceptResponse(resp)
            lastError == j.lastError \/ resp \in FailedResponses
        IN
        IF data # <<>>
        THEN LET c == CssEmit([c0 EXCEPT !.tr.currentTLE = data[1]], "set",
                              IF up THEN "ok" ELSE "fail", data[1], clock) IN
             /\ css' = c.tr
             /\ cssJobs' = AddFetch(DelFetch(cssJobs, j),
                                    CssJob(j.origin, "save", j.i, data[1], j.lastError))
             /\ cssStore' = cssSaveToCache(data[1], clock, up)
             /\ cssOut' = c.out
        ELSE IF j.i = 0
        THEN LET c == cssRequest(c0, j.origin, 1) IN
             /\ css' = c.tr
             /\ cssJobs' = AddFetch(DelFetch(cssJobs, j),
                                    CssJob(j.origin, "fetch", 1, NoTle, lastError))
             /\ cssStore' = cssStore
             /\ cssOut' = c.out
        ELSE LET c == cssOnFetchError(c0, j.origin, po) IN
             /\ css' = c.tr
             /\ cssJobs' = DelFetch(cssJobs, j)
             /\ cssStore' = cssStore
             /\ cssOut' = c.out
    /\ UNCHANGED <<clock, ticks, clicks, tsVars, calc>>

CssFetchSaved(j) ==
    /\ j.pc = "save"
    /\ \E po \in {"ok", "none"}, jo \in JsonOutcomes :
        LET c == cssFetchRest(CssEmit(CssCtx, "saved", j.origin, j.data, j.i),
                              j.origin, po, jo) IN
        /\ css' = c.tr
        /\ cssJobs' = DelFetch(cssJobs, j)
        /\ cssOut' = c.out
    /\ UNCHANGED <<clock, ticks, clicks, cssStore, tsVars, calc>>

\* Click on refreshBtn.
CssForceRefresh ==
    /\ CssInFlight < MaxInFlight
    /\ clicks < MaxClicks
    /\ clicks' = clicks + 1
    /\ LET c == cssForceRefresh(CssCtx) IN
        /\ css' = c.tr
        /\ cssJobs' = AddFetch(cssJobs, CssJob("force", "fetch", 0, NoTle, FALSE))
        /\ cssOut' = c.out
    /\ UNCHANGED <<clock, ticks, cssStore, tsVars, calc>>

\* The callback of tleUpdateInterval: loadData().
CssTleTimerFire ==
    /\ css.live.tle > 0
    /\ clock >= css.tleDue
    /\ CssInFlight < MaxInFlight
    /\ LET c == cssLoadDataStart([CssCtx EXCEPT !.tr.tleDue = clock + cssCacheExpiryTime]) IN
        /\ css' = c.tr
        /\ cssJobs' = AddFetch(cssJobs, CssJob("timer", "cache", 0, NoTle, FALSE))
        /\ cssOut' = c.out
    /\ UNCHANGED <<clock, ticks, clicks, cssStore, tsVars, calc>>

\* The callback of autoUpdateInterval.
CssAutoTick ==
    /\ css.live.auto > 0
    /\ \E po \in {"ok", "none"} :
        LET c == IF css.satrec # NoTle
                 THEN cssUpdateDisplay(CssCtx, propagated(css.currentTLE, po))
                 ELSE CssCtx IN
        /\ css' = c.tr
        /\ cssOut' = c.out
    /\ UNCHANGED <<clock, ticks, clicks, cssStore, cssJobs, tsVars, calc>>

\* The callback of timeDisplayInterval.
CssLabelTick ==
    /\ css.live.label > 0
    /\ LET c == cssRefreshTleTimeDisplay(CssCtx) IN
        /\ css' = c.tr
        /\ cssOut' = c.out
    /\ UNCHANGED <<clock, ticks, clicks, cssStore, cssJobs, tsVars, calc>>

\* DOMContentLoaded: new CSSTracker(), whose constructor calls loadData().
CssOpened == cssLoadDataStart([tr |-> NewCss, now |-> clock, out |-> {}])

\* The popup is closed and opened again: the page and its pending work are
\* gone, chrome.storage.local stays.
CssReopen ==
    /\ css' = CssOpened.tr
    /\ cssJobs' = SetToBag({CssJob("load", "cache", 0, NoTle, FALSE)})
    /\ cssOut' = CssOpened.out
    /\ clicks' = 0
    /\ UNCHANGED <<clock, ticks, cssStore, tsVars, calc>>

Init ==
    /\ clock = StartClock
    /\ ticks = 0
    /\ clicks = 0
    /\ store = [st \in StationTypes |-> NoRecord]
    /\ trackers = <<Mounted("css").tr>>
    /\ fetches = EmptyBag
    /\ out = Mounted("css").out
    /\ css = CssOpened.tr
    /\ cssStore = NoRecord
    /\ cssJobs = SetToBag({CssJob("load", "cache", 0, NoTle, FALSE)})
    /\ cssOut = CssOpened.out
    /\ calc = NoCalc

\* One page showing one station: the page may be closed and opened again.
Next ==
    \/ \E t \in 1..Len(trackers) : InitCacheDone(t)
    \/ \E f \in Suspended : FetchResponse(f)
    \/ \E f \in Suspended : FetchSaved(f)
    \/ ForceRefresh
    \/ \E t \in 1..Len(trackers) : TleTimerFire(t)
    \/ \E t \in 1..Len(trackers) : AutoTick(t)
    \/ \E t \in 1..Len(trackers) : LabelTick(t)
    \/ Reopen
    \/ \E d \in ClockSteps : Advance(d)

Spec == Init /\ [][Next]_vars

\* One page on which the user switches between the stations.
NextSwitch ==
    \/ \E t \in 1..Len(trackers) : InitCacheDone(t)
    \/ \E f \in Suspended : FetchResponse(f)
    \/ \E f \in Suspended : FetchSaved(f)
    \/ ForceRefresh
    \/ \E t \in 1..Len(trackers) : AutoTick(t)
    \/ \E t \in 1..Len(trackers) : LabelTick(t)
    \/ \E st \in StationTypes : SwitchStation(st)

SpecSwitch == Init /\ [][NextSwitch]_vars

\* The popup of the extension.
NextCSS ==
    \/ \E j \in CssSuspended : CssCacheDone(j)
    \/ \E j \in CssSuspended : CssFetchResponse(j)
    \/ \E j \in CssSuspended : CssFetchSaved(j)
    \/ CssForceRefresh
    \/ CssTleTimerFire
    \/ CssAutoTick
    \/ CssLabelTick
    \/ CssReopen
    \/ \E d \in ClockSteps : Advance(d)

SpecCSS == Init /\ [][NextCSS]_vars

(***************************************************************************)
(* Properties of StationTracker.                                           *)
(***************************************************************************)
Tracker(e) == trackers[e.t]
Station(e) == trackers[e.t].stationType
HasStatus(t, tag, type) ==
    \E e \in out : e.t = t /\ e.kind = "status" /\ e.tag = tag /\ e.type = type
HasRequest(t, origin) ==
    \E e \in out : e.t = t /\ e.kind = "request" /\ e.type = origin
TimersOf(tr) == <<tr.live.auto, tr.live.tle, tr.live.label>>
HandlesOf(tr) == <<tr.autoUpdateInterval, tr.tleUpdateInterval, tr.timeDisplayInterval>>

\* The record stored for station st is present and younger than 6 hours.
Fresh(st) ==
    /\ store[st].tle # NoTle
    /\ store[st].timestamp # 0
    /\ clock - store[st].timestamp < 360

\* Number of fetchFromNetwork() invocations of tracker t awaiting a response.
NetInFlight(t) ==
    CopiesIn(Fetch(t, "init", "net"), fetches)
    + CopiesIn(Fetch(t, "force", "net"), fetches)
    + CopiesIn(Fetch(t, "timer", "net"), fetches)

\* C1: for one StationTracker at most one network fetch is in flight at any
\* time; a forceRefresh() issued while another fetch awaits its response
\* does not start a second one.
C1_AtMostOneFetchInFlight ==
    \A t \in 1..Len(trackers) : NetInFlight(t) <= 1

\* C2: after cleanup() of a StationTracker none of its three timers is ever
\* active again, also when a fetch in flight at cleanup time completes
\* afterwards: only the tracker of the current station has active timers.
C2_NoTimerAfterCleanup ==
    \A t \in 1..(Len(trackers) - 1) :
        /\ TimersOf(trackers[t]) = <<0, 0, 0>>
        /\ HandlesOf(trackers[t]) = <<FALSE, FALSE, FALSE>>

\* C3: after cleanup() a tracker emits no data-update and no status event and
\* does not replace its element record or its propagation state.
C3_NothingAfterCleanup ==
    [][\A t \in 1..(Len(trackers) - 1) :
          /\ \A e \in out' : e.t = t => e.kind \notin {"status", "data"}
          /\ trackers'[t].currentTLE = trackers[t].currentTLE
          /\ trackers'[t].satrec = trackers[t].satrec]_vars

\* C4: however often startBackgroundUpdates() has run on a tracker, at most
\* one timer of each kind is active and it is the one the tracker holds the
\* handle of; once initialize() has completed (cache hit, network success or
\* fallback) exactly one timer of each of the three kinds is active.
C4_OneTimerOfEachKind ==
    \A t \in 1..Len(trackers) :
        LET tr == trackers[t] IN
        /\ tr.live.auto = (IF tr.autoUpdateInterval THEN 1 ELSE 0)
        /\ tr.live.tle = (IF tr.tleUpdateInterval THEN 1 ELSE 0)
        /\ tr.live.label = (IF tr.timeDisplayInterval THEN 1 ELSE 0)
        /\ (t = Current /\ tr.initPc = "done") => TimersOf(tr) = <<1, 1, 1>>

\* C4 witness: initialize() has completed and a later fetch (forced or
\* periodic) has just started the scheduler again.
C4_Witness ==
    \E e \in out :
        /\ e.kind = "saved" /\ e.type \in {"force", "timer"}
        /\ Tracker(e).initPc = "done"
        /\ HasStatus(e.t, "fetch_ok", "online")
        /\ TimersOf(Tracker(e)) = <<1, 1, 1>>

\* C5: loadFromCache returns the stored record if and only if the get
\* succeeds, record and timestamp are present and now - timestamp is strictly
\* less than 6 hours; otherwise it returns null although the record is still
\* stored.
C5_CacheFreshness ==
    \A e \in out :
        e.kind = "get" =>
            IF e.type = "ok" /\ Fresh(Station(e))
            THEN e.tag = store[Station(e)].tle /\ e.val = store[Station(e)].timestamp
            ELSE e.tag = NoTle /\ e.val = 0

\* C5 witness: a record read at exactly T + 6h is treated as absent while it
\* is still stored.
C5_Witness ==
    \E e \in out :
        /\ e.kind = "get" /\ e.type = "ok" /\ e.tag = NoTle
        /\ store[Station(e)].tle # NoTle
        /\ clock - store[Station(e)].timestamp = 360

\* C6: persistence failures never propagate: after a failing get initialize()
\* goes on to the network fetch; after a failing set the invocation goes on
\* past saveToCache with the fetched record, no failure is reported, and every
\* invocation resumed after saveToCache ends as an acquisition (network success,
\* or fallback when the built propagation state is invalid).
C6_PersistenceFailuresContained ==
    \A e \in out :
        /\ (e.kind = "get" /\ e.type = "fail") =>
              /\ HasRequest(e.t, "init")
              /\ Fetch(e.t, "init", "net") \in Suspended
              /\ \A s \in out : s.kind = "status" => s.type # "error"
        /\ (e.kind = "set" /\ e.type = "fail") =>
              /\ \E f \in Suspended : f.t = e.t /\ f.pc = "save"
              /\ Tracker(e).currentTLE = e.tag
              /\ \A s \in out : s.kind = "status" => s.type # "error"
        /\ e.kind = "saved" =>
              /\ HasStatus(e.t, "fetch_ok", "online") \/ HasStatus(e.t, "fallback", "error")
              /\ ~ HasStatus(e.t, "net_fail", "error")
              /\ ~ HasStatus(e.t, "refresh_fail", "error")

\* C6 witness: the set of a fetched record has just failed.
C6_Witness ==
    \E e \in out : e.kind = "set" /\ e.type = "fail" /\ store[Station(e)].tle # e.tag

\* C7: when initialize() finds a cached record younger than 6 hours it reaches
\* Ready from the cache and issues no network request; initialize() issues a
\* network request only when the cache is absent, expired or unreadable.
C7_CacheFirst ==
    \A e \in out :
        /\ (e.kind = "get" /\ e.type = "ok" /\ Fresh(Station(e))) =>
              /\ \A r \in out : r.kind # "request"
              /\ HasStatus(e.t, "cache", "online")
              /\ Tracker(e).initPc = "done"
              /\ TimersOf(Tracker(e)) = <<1, 1, 1>>
              /\ Fetch(e.t, "init", "net") \notin Suspended
        /\ (e.kind = "request" /\ e.type = "init") =>
              \E g \in out : g.kind = "get" /\ g.t = e.t
                             /\ ~ (g.type = "ok" /\ Fresh(Station(e)))

\* C7 witness: a record written 5h59m ago has just been served from the cache.
C7_Witness ==
    \E e \in out :
        /\ e.kind = "get" /\ e.type = "ok" /\ e.tag # NoTle
        /\ clock - e.val = 359
        /\ HasStatus(e.t, "cache", "online")

\* C8: a periodic element-refresh tick performs network I/O only when the
\* cached record has expired (age >= 6 hours), none while it is fresh.
C8_RefreshOnlyWhenExpired ==
    \A e \in out :
        (e.kind = "request" /\ e.type = "timer") => ~ Fresh(Station(e))

\* C10: when the network fails during initialize() with no fresh cache,
\* StationTracker becomes Ready on the fallback record, and the staleness it
\* reports is nonzero and counted from the fallback record's own epoch, not
\* from the time the fallback was loaded.
C10_FallbackStalenessFromEpoch ==
    \A e \in out :
        (e.kind = "response" /\ e.type = "init" /\ e.tag \in FailedResponses) =>
            /\ HasStatus(e.t, "fallback", "error")
            /\ Tracker(e).currentTLE = fallbackTLE(Station(e))
            /\ Tracker(e).initPc = "done"
            /\ TimersOf(Tracker(e)) = <<1, 1, 1>>
            /\ Tracker(e).tleTimestamp = fallbackEpoch
            /\ clock - Tracker(e).tleTimestamp > 0

(***************************************************************************)
(* Properties of CSSTracker.                                               *)
(***************************************************************************)
\* The collection holds a record the validation of fetchFromNetwork accepts.
HasMatchingRecord(resp) ==
    /\ resp \in Bodies
    /\ isArray(resp)
    /\ \E k \in 1..Len(itemsOf(resp)) : cssFound(itemsOf(resp)[k])

\* C9: when the primary endpoint has failed and the secondary endpoint returns
\* a collection with a matching record, the acquisition of CSSTracker becomes
\* Ready from the network (status online, update source network) on that
\* record, the cache holds the record with the fetch time as its timestamp
\* once the store has accepted the write, and no fallback is used.
C9_SecondaryEndpointSucceeds ==
    \A e \in cssOut :
        /\ (e.kind = "response" /\ e.val = 1 /\ HasMatchingRecord(e.tag)) =>
              /\ css.currentTLE = findCss(itemsOf(e.tag))
              /\ \A s \in cssOut : (s.kind = "set" /\ s.type = "ok") =>
                    cssStore = [tle |-> findCss(itemsOf(e.tag)), timestamp |-> clock]
        /\ (e.kind = "saved" /\ e.val = 1 /\ cssFound(e.tag)) =>
              /\ css.currentTLE = e.tag
              /\ css.satrec = json2satrec(e.tag)
              /\ css.tleSource = "network"
              /\ \E s \in cssOut : s.kind = "status" /\ s.tag = "updated" /\ s.type = "online"
              /\ \A s \in cssOut : s.kind = "status" => s.tag # "fallback"

\* C11: every failed network acquisition of StationTracker leads to Fallback,
\* whatever started the fetch (initialize, forceRefresh or the periodic
\* element refresh): the handler that receives the failure loads the static
\* element record and reports it.
C11_EveryFailureFallsBack ==
    \A e \in out :
        (e.kind = "response" /\ e.tag \in FailedResponses) =>
            /\ HasStatus(e.t, "fallback", "error")
            /\ Tracker(e).currentTLE = fallbackTLE(Station(e))

\* C12: a record is taken from a network response only if it describes the
\* tracked object (its catalog identifier or its name matches): no other
\* record becomes the current element record or is written to the cache.
C12_OnlyMatchingRecordAccepted ==
    \A e \in out :
        e.kind = "set" =>
            /\ describesStation(e.tag)
            /\ describesStation(Tracker(e).currentTLE)
            /\ describesStation(store[Station(e)].tle)

\* The status events with which an acquisition completes: cache hit, network
\* success, fallback.
CompletionTags == {"cache", "fetch_ok", "fallback"}

\* C13: every completed acquisition of StationTracker (cache hit, network
\* success or fallback) has, when it completes, rebuilt the propagation state,
\* emitted at least one data-update event computed from the new state, emitted
\* a status event describing the source, and left all three timers active.
C13_CompletedAcquisitionEffects ==
    \A s \in out :
        (s.kind = "status" /\ s.tag \in CompletionTags) =>
            /\ Tracker(s).satrec # NoSat
            /\ \E d \in out : d.t = s.t /\ d.kind = "data"
                              /\ d.tag = Tracker(s).satrec.from
            /\ TimersOf(Tracker(s)) = <<1, 1, 1>>

\* C14: the validity code is checked after every construction of a propagation
\* state, and a nonzero code leads to Fallback: no status of type online is
\* emitted while the tracker's propagation state has a nonzero validity code.
C14_OnlineImpliesValidState ==
    \A s \in out :
        (s.kind = "status" /\ s.type = "online") => Tracker(s).satrec.error = 0

\* The last action logged that updateDisplay had no position to show.
DisplayFailed(t, o) == \E l \in o : l.t = t /\ l.kind = "log"

\* C15: a redisplay tick performs no network access, and a tick that finds the
\* propagation state missing, invalid or unable to produce a position is a
\* no-op: it emits no data-update event and leaves the element record, the
\* propagation state, the timestamp, the cache and the timers unchanged.
C15_FailedTickIsNoOp ==
    [][\A t \in 1..Len(trackers) :
          AutoTick(t) =>
              /\ fetches' = fetches
              /\ \A e \in out' : e.kind # "request"
              /\ DisplayFailed(t, out') =>
                    /\ \A e \in out' : e.kind # "data"
                    /\ trackers' = trackers
                    /\ store' = store]_vars

\* C16: a staleness-label refresh tick recomputes only the label: it performs
\* no network access and leaves the element record and the propagation state
\* unchanged.
C16_LabelTickFrame ==
    [][\A t \in 1..Len(trackers) :
          LabelTick(t) =>
              /\ fetches' = fetches
              /\ \A e \in out' : e.kind # "request"
              /\ trackers'[t].currentTLE = trackers[t].currentTLE
              /\ trackers'[t].satrec = trackers[t].satrec]_vars

\* The tracker has a propagation state: an acquisition has completed.
Ready(t) == trackers[t].satrec # NoSat
\* A periodic or forced request of tracker t awaits its response.
Pending(t) ==
    CopiesIn(Fetch(t, "force", "net"), fetches)
    + CopiesIn(Fetch(t, "timer", "net"), fetches) > 0

\* C17: the 1-second redisplay is independent of the network: while a
\* periodic or forced request of a Ready tracker is pending, the redisplay
\* timer stays active, and a redisplay tick leaves the pending requests
\* alone and, unless the display itself fails, emits a position sample
\* computed from the unchanged propagation state.
C17_RedisplayIndependentOfNetwork ==
    /\ [](\A t \in 1..Len(trackers) :
             (Ready(t) /\ Pending(t)) => trackers[t].live.auto > 0)
    /\ [][\A t \in 1..Len(trackers) :
             (Pending(t) /\ AutoTick(t)) =>
                 /\ fetches' = fetches
                 /\ ~DisplayFailed(t, out') =>
                       /\ trackers'[t].satrec = trackers[t].satrec
                       /\ \E d \in out' : /\ d.t = t /\ d.kind = "data"
                                          /\ d.tag = trackers[t].satrec.from]_vars
\* A redisplay tick has just emitted a sample while a request is pending.
C17_Witness ==
    \E t \in 1..Len(trackers) :
        /\ Ready(t) /\ Pending(t)
        /\ out # {}
        /\ \A e \in out : e.t = t /\ e.kind = "data"

(***************************************************************************)
(* One life of the page with every asynchronous step scheduled.            *)
(***************************************************************************)
\* What chrome.storage.local holds when the page opens: nothing, or a record
\* an earlier page saved just within or just beyond the expiry time.
StoredBefore ==
    {NoRecord} \cup
    {[tle |-> tle, timestamp |-> StartClock - age] :
        tle \in {"netA", "netBad"}, age \in {cacheExpiryTime - 1, cacheExpiryTime}}

InitLive ==
    /\ clock = StartClock
    /\ ticks = 0
    /\ clicks = 0
    /\ \E r \in StoredBefore : store = [st \in StationTypes |-> IF st = "css" THEN r ELSE NoRecord]
    /\ trackers = <<Mounted("css").tr>>
    /\ fetches = EmptyBag
    /\ out = Mounted("css").out
    /\ css = CssOpened.tr
    /\ cssStore = NoRecord
    /\ cssJobs = SetToBag({CssJob("load", "cache", 0, NoTle, FALSE)})
    /\ cssOut = CssOpened.out
    /\ calc = NoCalc

\* The clock stands still: the age of what the storage holds is drawn in
\* InitLive, and the periodic request needs an hour to pass.
NextLive ==
    \/ \E t \in 1..Len(trackers) : InitCacheDone(t)
    \/ \E f \in Suspended : FetchResponse(f)
    \/ \E f \in Suspended : FetchSaved(f)
    \/ ForceRefresh
    \/ \E t \in 1..Len(trackers) : AutoTick(t)
    \/ \E t \in 1..Len(trackers) : LabelTick(t)

\* The storage answers every get and set and every request returns or fails:
\* the event loop then resumes a handler suspended at an await.  At most
\* MaxInFlight + 1 handlers are suspended at a time, so none waits forever.
Resume ==
    \/ \E t \in 1..Len(trackers) : InitCacheDone(t)
    \/ \E f \in Suspended : FetchResponse(f)
    \/ \E f \in Suspended : FetchSaved(f)
Scheduling == WF_vars(Resume)

SpecLive == InitLive /\ [][NextLive]_vars /\ Scheduling

\* initialize() of tracker t has returned.
Returned(t) == trackers[t].initPc = "done"

\* C18: no failure leaves the tracker stuck.  When every request returns or
\* fails, initialize() returns; from then on the tracker has a propagation
\* state; and the step on which it returns emits a status, every status of
\* that step having type online or error, so that loading is not the last.
C18_InitializeReachesReady ==
    /\ <>Returned(1)
    /\ [](\A t \in 1..Len(trackers) : Returned(t) => Ready(t))
    /\ [][\A t \in 1..Len(trackers) :
             (~Returned(t) /\ Returned(t)') =>
                 /\ \E s \in out' : s.t = t /\ s.kind = "status"
                 /\ \A s \in out' : (s.t = t /\ s.kind = "status")
                                        => s.type \in {"online", "error"}]_vars
\* initialize() has just returned after its request failed.
C18_Witness ==
    /\ Returned(1) /\ Ready(1)
    /\ \E e \in out : e.kind = "response" /\ e.type = "init" /\ e.tag \in FailedResponses
    /\ HasStatus(1, "fallback", "error")

\* The members of StatusType a caller of updateStatus names.
StatusTypes == {"loading", "online", "error"}

\* C19: every status event the tracker emits carries a message and a type
\* that is one of loading, online, error; the empty default type of
\* updateStatus is never emitted.
C19_StatusTypeIsNamed ==
    \A e \in out :
        e.kind = "status" => (e.type \in StatusTypes /\ e.tag # "")
\* A forced refresh has just failed: its catch clause emitted a status.
C19_Witness ==
    /\ HasStatus(Current, "refresh_fail", "error")
    /\ \E e \in out : e.kind = "response" /\ e.type = "force"

\* C20: the timestamp stored in a cache record is the clock value at
\* saveToCache, never the epoch of the contained elements, and the timestamp
\* a cache hit hands back is exactly the one that was written.
C20_CacheTimestampIsAcquisitionTime ==
    /\ [][\A st \in StationTypes :
             store'[st] # store[st] =>
                 /\ store'[st].timestamp = clock
                 /\ store'[st].timestamp # epochOf(store'[st].tle)
                 /\ \E e \in out' : /\ e.kind = "set" /\ e.type = "ok"
                                    /\ e.tag = store'[st].tle
                                    /\ e.val = store'[st].timestamp]_vars
    /\ [](\A e \in out :
             (e.kind = "get" /\ e.tag # NoTle) =>
                 /\ e.val = store[Station(e)].timestamp
                 /\ e.tag = store[Station(e)].tle)
\* A page opened after time has passed has just had a cache hit on a record
\* written by the page before it.
C20_Witness ==
    \E e \in out :
        /\ e.kind = "get" /\ e.tag # NoTle
        /\ e.val = store[Station(e)].timestamp
        /\ e.val < clock
        /\ HasStatus(e.t, "cache", "online")

(***************************************************************************)
(* The functions of the trackers, called on drawn arguments.               *)
(***************************************************************************)
MaxPoints == 3
\* Latitudes and longitudes of orbit points, in degrees: among the
\* longitudes are pairs 180 apart, 181 apart and further apart.
Lats == {0, 40}
Lons == {-170, -90, 10, 11, 170}
OrbitPoints == {<<lat, lon>> : lat \in Lats, lon \in Lons}
RECURSIVE SeqsUpTo(_, _)
SeqsUpTo(S, n) ==
    IF n = 0 THEN {<<>>}
    ELSE LET shorter == SeqsUpTo(S, n - 1) IN
         shorter \cup {Append(q, x) : q \in {r \in shorter : Len(r) = n - 1}, x \in S}
Paths == SeqsUpTo(OrbitPoints, MaxPoints)

Abs(x) == IF x < 0 THEN -x ELSE x

\* Faulty variant of crossesDateline: a difference of exactly half a turn
\* splits too.
crossesAtHalfTurn(prevPoint, point) == Abs(point[2] - prevPoint[2]) >= 180

\* lonDiff > 180 of splitOrbitAtDateline.
crossesDateline(prevPoint, point) == Abs(point[2] - prevPoint[2]) > 180

\* The loop of StationTracker.splitOrbitAtDateline from index i (1-based).
RECURSIVE splitLoop(_, _, _, _)
splitLoop(points, i, segments, currentSegment) ==
    IF i > Len(points)
    THEN IF Len(currentSegment) > 0 THEN Append(segments, currentSegment) ELSE segments
    ELSE IF i > 1
         THEN IF crossesDateline(points[i - 1], points[i])
              THEN splitLoop(points, i + 1,
                             IF Len(currentSegment) > 0
                             THEN Append(segments, currentSegment) ELSE segments,
                             <<points[i]>>)
              ELSE splitLoop(points, i + 1, segments, Append(currentSegment, points[i]))
         ELSE splitLoop(points, i + 1, segments, Append(currentSegment, points[i]))

splitOrbitAtDateline(points) == splitLoop(points, 1, <<>>, <<>>)

\* The loop of CSSTracker.splitOrbitAtDateline from index i (1-based).
RECURSIVE cssSplitLoop(_, _, _, _)
cssSplitLoop(points, i, segments, currentSegment) ==
    IF i > Len(points)
    THEN IF Len(currentSegment) > 0 THEN Append(segments, currentSegment) ELSE segments
    ELSE IF crossesDateline(points[i - 1], points[i])
         THEN cssSplitLoop(points, i + 1, Append(segments, currentSegment), <<points[i]>>)
         ELSE cssSplitLoop(points, i + 1, segments, Append(currentSegment, points[i]))

cssSplitOrbitAtDateline(points) ==
    IF Len(points) = 0 THEN <<>>
    ELSE cssSplitLoop(points, 2, <<>>, <<points[1]>>)

\* One call from the idle state: the argument and the result are recorded.
Call(op, arg, res) ==
    /\ calc = NoCalc
    /\ calc' = [op |-> op, arg |-> arg, res |-> res]
    /\ UNCHANGED <<clock, ticks, clicks, tsVars, cssVars>>

SplitOrbit == \E points \in Paths : Call("splitOrbitAtDateline", points, splitOrbitAtDateline(points))
CssSplitOrbit == \E points \in Paths : Call("cssSplitOrbitAtDateline", points, cssSplitOrbitAtDateline(points))

MaxAngle == 1080
\* Angles in degrees: three turns either way, with every multiple of 360,
\* 180 and -180 among them.
Angles == (-MaxAngle)..MaxAngle

\* The % of JavaScript: the remainder has the sign of the dividend.
jsRem(a, b) == IF a >= 0 THEN a % b ELSE -((-a) % b)

\* Faulty variant of normalize: one remainder only.
normalizeOnce(x) == jsRem(x + 180, 360) - 180

\* longitude = ((((longitude + 180) % 360) + 360) % 360) - 180
normalize(x) == jsRem(jsRem(x + 180, 360) + 360, 360) - 180

Normalize == \E x \in Angles : Call("normalize", x, normalize(x))

MaxQuarterTurns == 6
\* geodeticCoords.longitude as satellite.eciToGeodetic may return it, in
\* quarter turns (multiples of pi/2 radians).
GeodeticLongitudes == (-MaxQuarterTurns)..MaxQuarterTurns

\* radians * (180 / Math.PI), for an angle given in quarter turns.
radiansToDegrees(quarterTurns) == quarterTurns * 90

\* The longitude of a data-update event of StationTracker.updateDisplay.
displayLongitude(lon) == radiansToDegrees(lon)
\* The longitude of a point of StationTracker.updateOrbitPath.
orbitPointLongitude(lon) == radiansToDegrees(lon)

DisplayLongitude == \E lon \in GeodeticLongitudes : Call("displayLongitude", lon, displayLongitude(lon))
OrbitPointLongitude == \E lon \in GeodeticLongitudes : Call("orbitPointLongitude", lon, orbitPointLongitude(lon))

\* Longitudes of the sub-satellite point at the instant of the call.
StartLons == {-170, 0, 100}
\* The sample whose propagation yields no position, in minutes after the
\* call; with NoSample every sample propagates.
NoSample == -1
FailingSamples == {NoSample, 0, 44, 88, 90}

\* satellite.propagate and eciToGeodetic at minute m after the call, for an
\* orbit whose ground track moves east by 4 degrees a minute.
groundPoint(lon0, m) == <<0, normalize(lon0 + 4 * m)>>

\* The loop of StationTracker.updateOrbitPath from i: for (i; i < 90; i += 2),
\* futureTime = now + i minutes.  Each entry is [minute, point].
RECURSIVE orbitLoop(_, _, _, _)
orbitLoop(i, lon0, bad, points) ==
    IF i < 90
    THEN orbitLoop(i + 2, lon0, bad,
                   IF i = bad THEN points
                   ELSE Append(points, [minute |-> i, point |-> groundPoint(lon0, i)]))
    ELSE points

\* The loop of CSSTracker.updateOrbitPath from i: for (i; i <= 45; i++),
\* futureTime = now + i * 2 minutes.
RECURSIVE cssOrbitLoop(_, _, _, _)
cssOrbitLoop(i, lon0, bad, points) ==
    IF i <= 45
    THEN cssOrbitLoop(i + 1, lon0, bad,
                      IF i * 2 = bad THEN points
                      ELSE Append(points, [minute |-> i * 2,
                                           point |-> groundPoint(lon0, i * 2)]))
    ELSE points

PointsOf(samples) == [k \in 1..Len(samples) |-> samples[k].point]

\* What updateOrbitPath computed and what it handed to the polyline.
updateOrbitPath(lon0, bad) ==
    LET samples == orbitLoop(0, lon0, bad, <<>>) IN
    [samples |-> samples, handed |-> splitOrbitAtDateline(PointsOf(samples))]

\* What updateOrbitPath of the popup computed and what it split into the
\* segments it draws.
cssUpdateOrbitPath(lon0, bad) ==
    LET samples == cssOrbitLoop(0, lon0, bad, <<>>) IN
    [samples |-> samples, handed |-> cssSplitOrbitAtDateline(PointsOf(samples))]

UpdateOrbitPath ==
    \E lon0 \in StartLons, bad \in FailingSamples :
        Call("updateOrbitPath", <<lon0, bad>>, updateOrbitPath(lon0, bad))
CssUpdateOrbitPath ==
    \E lon0 \in StartLons, bad \in FailingSamples :
        Call("cssUpdateOrbitPath", <<lon0, bad>>, cssUpdateOrbitPath(lon0, bad))

NoPoint == <<>>
\* tracker.getOrbitEndPoint() on a StationTracker: the class declares no such
\* member and updateOrbitPath keeps its points in a local, so the call
\* throws a TypeError whatever path was computed last.
getOrbitEndPoint(lastPath) == [throws |-> TRUE, value |-> NoPoint]

\* MapView.updateOrbitEndPosition: the marker moves to the end point the
\* tracker returns; a thrown error is logged and the marker stays.
updateOrbitEndPosition(marker, lastPath) ==
    LET endPoint == getOrbitEndPoint(lastPath) IN
    IF endPoint.throws \/ endPoint.value = NoPoint THEN marker ELSE endPoint.value

\* The effects of MapView on a data update: the end point is queried for
\* the path updateOrbitPath computed.
OrbitEndPosition ==
    \E lon0 \in StartLons, marker \in {NoPoint, <<0, 0>>} :
        LET lastPath == updateOrbitPath(lon0, NoSample) IN
        Call("updateOrbitEndPosition", <<marker, lastPath>>,
             updateOrbitEndPosition(marker, lastPath))

(***************************************************************************)
(* Encoding of element records.  A string is the sequence of its           *)
(* characters.  The numbers of a record are held in the unit of their last *)
(* digit: angles in 1e-4 degree, MEAN_MOTION in 1e-8 revolution a day,     *)
(* ECCENTRICITY in 1e-7.  A derivative or drag term is zero or             *)
(* [neg, mant, exp], the number (+/-) mant * 10^(exp - 5) with a mantissa  *)
(* of six digits.                                                          *)
(***************************************************************************)
DigitChars == <<"0", "1", "2", "3", "4", "5", "6", "7", "8", "9">>
\* Number.prototype.toString of a natural number.
RECURSIVE natToString(_)
natToString(n) ==
    IF n < 10 THEN <<DigitChars[n + 1]>>
    ELSE Append(natToString(n \div 10), DigitChars[(n % 10) + 1])
\* String(n) of an integer.
intToString(n) == IF n < 0 THEN <<"-">> \o natToString(-n) ELSE natToString(n)

RECURSIVE Repeat(_, _)
Repeat(ch, k) == IF k <= 0 THEN <<>> ELSE <<ch>> \o Repeat(ch, k - 1)
\* String.prototype.padStart and padEnd: a longer string is left as it is.
padStart(s, width, ch) == Repeat(ch, width - Len(s)) \o s
padEnd(s, width, ch) == s \o Repeat(ch, width - Len(s))

RECURSIVE Pow10(_)
Pow10(k) == IF k = 0 THEN 1 ELSE 10 * Pow10(k - 1)
\* Number.prototype.toFixed(digits) of the non-negative number
\* units * 10^-digits.
toFixed(units, digits) ==
    natToString(units \div Pow10(digits)) \o <<".">>
        \o padStart(natToString(units % Pow10(digits)), digits, "0")
\* toFixed(digits) of whole + fraction * 10^-digits.
toFixedOfSum(whole, fraction, digits) ==
    natToString(whole) \o <<".">> \o padStart(natToString(fraction), digits, "0")

Zero == [neg |-> FALSE, mant |-> 0, exp |-> 0]
Sci(neg, mant, exp) == [neg |-> neg, mant |-> mant, exp |-> exp]

\* StationTracker.formatScientific: floor(log10(|num|)) is num.exp and
\* floor(|num| / 10^exp * 100000) is num.mant.
formatScientific(num, width) ==
    IF num = Zero THEN <<" ", "0", "0", "0", "0", "0", "-", "0">>
    ELSE LET exponent == num.exp
             mantissaInt == num.mant
             sign == IF ~num.neg THEN " " ELSE "-"
             expSign == IF exponent >= 0 THEN <<"+">> ELSE <<>>
         IN  <<sign>> \o padStart(natToString(mantissaInt), 5, "0")
                 \o expSign \o intToString(exponent)

\* Faulty variant of formatBstarFromJson: zero is not treated apart and takes
\* the general path with exponent 0.
formatBstarGeneral(bstar) ==
    LET exp == bstar.exp
        mantissa == IF bstar.neg THEN -((bstar.mant + 9) \div 10)
                    ELSE bstar.mant \div 10
    IN  padStart(natToString(Abs(mantissa)), 5, "0")
            \o (IF exp >= 0 THEN <<"+">> ELSE <<>>) \o intToString(exp)

\* StationTracker.formatBstarFromJson: floor(bstar * 10^(-exp + 4)) is the
\* floor of (+/-) mant / 10.
formatBstarFromJson(bstar) ==
    IF bstar = Zero THEN <<"0", "0", "0", "0", "0", "-", "0">>
    ELSE LET exp == bstar.exp
             mantissa == IF bstar.neg THEN -((bstar.mant + 9) \div 10)
                         ELSE bstar.mant \div 10
         IN  padStart(natToString(Abs(mantissa)), 5, "0")
                 \o (IF exp >= 0 THEN <<"+">> ELSE <<>>) \o intToString(exp)

\* EPOCH after new Date(epochStr): the year, the day of the year and the
\* fraction of the day in 1e-8 day.  formatEpochCorrect reads the fields in
\* local time and formatEpochFromJson in UTC; both format them alike.
formatEpochCorrect(epoch) ==
    SubSeq(natToString(epoch.year), 3, 4)
        \o padStart(toFixedOfSum(epoch.day, epoch.fraction, 8), 12, "0")
formatEpochFromJson(epoch) ==
    SubSeq(natToString(epoch.year), 3, 4)
        \o padStart(toFixedOfSum(epoch.day, epoch.fraction, 8), 12, "0")

\* a || b of JavaScript for a number a.
OrElse(a, b) == IF a = 0 THEN b ELSE a

generateTLE1(tleData) ==
    LET satNum == padStart(natToString(tleData.NORAD_CAT_ID), 5, "0")
        classification == tleData.CLASSIFICATION_TYPE
        intlDesignator == padEnd(tleData.OBJECT_ID, 8, " ")
        epoch == formatEpochCorrect(tleData.EPOCH)
        meanMotionDot == formatScientific(tleData.MEAN_MOTION_DOT, 8)
        meanMotionDDot == formatScientific(tleData.MEAN_MOTION_DDOT, 8)
        bstar == formatScientific(tleData.BSTAR, 8)
        ephemerisType == natToString(OrElse(tleData.EPHEMERIS_TYPE, 0))
        elementSetNum == padStart(natToString(OrElse(tleData.ELEMENT_SET_NO, 999)), 4, "0")
    IN  <<"1", " ">> \o satNum \o <<classification, " ">> \o intlDesignator \o <<" ">>
            \o epoch \o <<" ">> \o meanMotionDot \o <<" ">> \o meanMotionDDot \o <<" ">>
            \o bstar \o <<" ">> \o ephemerisType \o <<" ">> \o elementSetNum \o <<"0">>

generateTLE2(tleData) ==
    LET satNum == padStart(natToString(tleData.NORAD_CAT_ID), 5, "0")
        inclination == padStart(toFixed(tleData.INCLINATION, 4), 8, " ")
        raan == padStart(toFixed(tleData.RA_OF_ASC_NODE, 4), 8, " ")
        eccentricity == padStart(natToString(tleData.ECCENTRICITY), 7, "0")
        argPerigee == padStart(toFixed(tleData.ARG_OF_PERICENTER, 4), 8, " ")
        meanAnomaly == padStart(toFixed(tleData.MEAN_ANOMALY, 4), 8, " ")
        meanMotion == padStart(toFixed(tleData.MEAN_MOTION, 8), 11, " ")
        revNum == padStart(natToString(tleData.REV_AT_EPOCH), 5, "0")
    IN  <<"2", " ">> \o satNum \o <<" ">> \o inclination \o <<" ">> \o raan \o <<" ">>
            \o eccentricity \o <<" ">> \o argPerigee \o <<" ">> \o meanAnomaly \o <<" ">>
            \o meanMotion \o revNum \o <<"0">>

\* Math.floor(num * 10^k) for a derivative term num.
floorScaled(num, k) ==
    LET shift == num.exp - 5 + k
        whole == IF shift >= 0 THEN num.mant * Pow10(shift) ELSE num.mant \div Pow10(-shift)
        exact == shift >= 0 \/ num.mant % Pow10(-shift) = 0
    IN  IF num.neg THEN (IF exact THEN -whole ELSE -(whole + 1)) ELSE whole

\* The lines fetchFromNetwork encodes inline from the record it received.
inlineTLE1(currentTLE) ==
    LET satId == currentTLE.NORAD_CAT_ID
        objectId == currentTLE.OBJECT_ID
    IN  <<"1", " ">> \o padStart(natToString(satId), 5, "0") \o <<"U", " ">>
            \o padEnd(objectId, 8, " ") \o <<" ">> \o formatEpochFromJson(currentTLE.EPOCH)
            \o <<" ", " ", ".">>
            \o padStart(intToString(floorScaled(currentTLE.MEAN_MOTION_DOT, 8)), 8, "0")
            \o <<" ", " ", "0", "0", "0", "0", "0", "-", "0", " ", " ">>
            \o formatBstarFromJson(currentTLE.BSTAR)
            \o <<" ", "0", " ", " ", "9", "9", "9", "0">>

inlineTLE2(currentTLE) ==
    LET satId == currentTLE.NORAD_CAT_ID IN
    <<"2", " ">> \o padStart(natToString(satId), 5, "0") \o <<" ">>
        \o padStart(toFixed(currentTLE.INCLINATION, 4), 8, " ") \o <<" ">>
        \o padStart(toFixed(currentTLE.RA_OF_ASC_NODE, 4), 8, " ") \o <<" ">>
        \o padStart(natToString(currentTLE.ECCENTRICITY), 7, "0") \o <<" ">>
        \o padStart(toFixed(currentTLE.ARG_OF_PERICENTER, 4), 8, " ") \o <<" ">>
        \o padStart(toFixed(currentTLE.MEAN_ANOMALY, 4), 8, " ") \o <<" ">>
        \o padStart(toFixed(currentTLE.MEAN_MOTION, 8), 11, " ")
        \o padStart(natToString(currentTLE.REV_AT_EPOCH), 5, "0") \o <<"0">>

\* Valid element records: the fields the encoders read take a few values
\* each, the extremes of their ranges among them.
ObjectIds == {<<"1", "9", "9", "8", "-", "0", "6", "7", "A">>,
              <<"2", "0", "2", "1", "-", "0", "3", "5", "A">>}
CatalogNumbers == {25544, 48274}
Angles4 == {0, 516400, 3599999}
Eccentricities == {0, 5500, 9999999}
MeanMotions == {1549112426, 1550103472, 100270000}
DragTerms == {Zero, Sci(FALSE, 218200, -5), Sci(TRUE, 120000, -4), Sci(FALSE, 100000, -11)}
Epochs == {[year |-> 2024, day |-> 1, fraction |-> 0],
           [year |-> 2025, day |-> 165, fraction |-> 10650463]}
TleRecords ==
    {[OBJECT_ID |-> id, NORAD_CAT_ID |-> cat, EPOCH |-> ep,
      MEAN_MOTION |-> mm, ECCENTRICITY |-> ecc, INCLINATION |-> ang,
      RA_OF_ASC_NODE |-> 1234567, ARG_OF_PERICENTER |-> 3599999 - ang,
      MEAN_ANOMALY |-> 3456789, EPHEMERIS_TYPE |-> 0,
      CLASSIFICATION_TYPE |-> "U", ELEMENT_SET_NO |-> 999, REV_AT_EPOCH |-> 12345,
      BSTAR |-> drag, MEAN_MOTION_DOT |-> dot, MEAN_MOTION_DDOT |-> Zero] :
        id \in ObjectIds, cat \in CatalogNumbers, ep \in Epochs, mm \in MeanMotions,
        ecc \in Eccentricities, ang \in Angles4, drag \in DragTerms, dot \in DragTerms}

GenerateTLE1 == \E tleData \in TleRecords : Call("generateTLE1", tleData, generateTLE1(tleData))
GenerateTLE2 == \E tleData \in TleRecords : Call("generateTLE2", tleData, generateTLE2(tleData))
InlineTLE ==
    \E tleData \in TleRecords :
        Call("inlineTLE", tleData, <<inlineTLE1(tleData), inlineTLE2(tleData)>>)

FormatScientific == \E num \in DragTerms : Call("formatScientific", num, formatScientific(num, 8))
FormatBstarFromJson == \E bstar \in DragTerms : Call("formatBstarFromJson", bstar, formatBstarFromJson(bstar))

\* 10 * rem divided by m, for rem < m, by ten additions that stay below m:
\* the quotient digit and the remainder.
RECURSIVE timesTenDivMod(_, _, _, _, _)
timesTenDivMod(q, r, rem, m, k) ==
    IF k = 0 THEN [q |-> q, r |-> r]
    ELSE IF r >= m - rem THEN timesTenDivMod(q + 1, r - (m - rem), rem, m, k - 1)
         ELSE timesTenDivMod(q, r + rem, rem, m, k - 1)
\* The first digits of the quotient (q + rem / m) * 10^k.
RECURSIVE quotientDigits(_, _, _, _)
quotientDigits(q, rem, m, k) ==
    IF k = 0 THEN q
    ELSE LET d == timesTenDivMod(0, 0, rem, m, 10) IN
         quotientDigits(q * 10 + d.q, d.r, m, k - 1)

\* Faulty variant of period: the quotient is cut after two decimals.
periodTruncated(meanMotion) ==
    toFixed(quotientDigits((24 * 60) \div meanMotion, (24 * 60) % meanMotion, meanMotion, 11)
                \div 10, 2)

\* period = (24 * 60) / MEAN_MOTION and period.toFixed(2): the quotient is
\* taken to three decimals (MEAN_MOTION is in 1e-8) and rounded to two.
period(meanMotion) ==
    toFixed((quotientDigits((24 * 60) \div meanMotion, (24 * 60) % meanMotion, meanMotion, 11)
                + 5) \div 10, 2)

Period == \E meanMotion \in MeanMotions : Call("period", meanMotion, period(meanMotion))

(***************************************************************************)
(* The mutual calls of updateDisplay and useFallbackData, followed call by *)
(* call.  A run r holds the context c, the outcome po of propagating a     *)
(* state built from an element record, the outcomes fs of the successive   *)
(* propagations of the state built from the known valid lines (the last    *)
(* one repeats), the number of calls made and the calls still followed.    *)
(***************************************************************************)
MaxCalls == 12

\* Faulty variant of testPropagate: useFallbackData does not try the state
\* it has built.
testPropagateOmitted(r) == r

\* The outcome of the next propagation of the run's state.
nextOutcome(r) ==
    IF r.c.tr.satrec.from = knownValidTLE(r.c.tr.stationType) THEN Head(r.fs) ELSE r.po
\* satellite.propagate has run once more on the run's state: a failure that
\* reports an error leaves its code in the state.
propagate(r) ==
    LET o == nextOutcome(r)
        r1 == IF r.c.tr.satrec.from = knownValidTLE(r.c.tr.stationType) /\ Len(r.fs) > 1
              THEN [r EXCEPT !.fs = Tail(@)] ELSE r
    IN  IF o = "err" THEN [r1 EXCEPT !.c.tr.satrec.error = 1] ELSE r1

\* The test propagation of useFallbackData on the state it has just built.
testPropagate(r) == IF r.c.tr.satrec.error = 0 THEN propagate(r) ELSE r

RECURSIVE updateDisplayRun(_)
RECURSIVE useFallbackDataRun(_)
updateDisplayRun(r) ==
    IF r.fuel = 0 THEN r
    ELSE LET r1 == [r EXCEPT !.calls = @ + 1, !.fuel = @ - 1] IN
         IF r1.c.tr.satrec = NoSat \/ r1.c.tr.currentTLE = NoTle
         THEN [r1 EXCEPT !.c = logError(@, "missing")]
         ELSE IF r1.c.tr.satrec.error # 0
         THEN [r1 EXCEPT !.c = logError(@, "invalid")]
         ELSE LET o == nextOutcome(r1)
                  r2 == propagate(r1)
              IN  CASE o = "ok" -> [r2 EXCEPT !.c = emitData(@)]
                    [] o = "none" -> [r2 EXCEPT !.c = logError(@, "no_position")]
                    [] OTHER -> useFallbackDataRun(
                                    [r2 EXCEPT !.c = logError(@, "no_position")])

useFallbackDataRun(r) ==
    IF r.fuel = 0 THEN r
    ELSE LET r1 == [r EXCEPT !.calls = @ + 1, !.fuel = @ - 1,
                             !.c.tr.satrec = twoline2satrec(knownValidTLE(r.c.tr.stationType))]
             r2 == testPropagate(r1)
             r3 == updateDisplayRun([r2 EXCEPT !.c.tr.currentTLE = fallbackTLE(r.c.tr.stationType)])
             r4 == [r3 EXCEPT !.c.tr.tleTimestamp = r.c.now]
             r5 == IF r4.c.tr.tleTimestamp # 0 THEN updateDisplayRun(r4) ELSE r4
         IN  [r5 EXCEPT !.c = startBackgroundUpdates(updateStatus(@, "fallback", "error"))]

\* The trackers updateDisplay is called on: without a state, with a state
\* built from a fetched record (valid or not), and in Fallback.
DisplayStates ==
    {[NewTracker(1, st) EXCEPT !.currentTLE = p[1], !.satrec = p[2], !.tleTimestamp = ts] :
        st \in StationTypes, ts \in {0, StartClock},
        p \in {<<NoTle, NoSat>>, <<"netA", twoline2satrec("netA")>>,
               <<"netBad", twoline2satrec("netBad")>>,
               <<"netA", twoline2satrec(knownValidTLE("css"))>>,
               <<"netA", twoline2satrec(knownValidTLE("iss"))>>}}
\* The outcomes of the successive propagations of the known valid lines
\* during one call: propagation is a function of the state and the instant,
\* and the instants of one call are milliseconds apart, so the outcome
\* changes at most once.
FallbackOutcomes ==
    {<<a>> : a \in PropOutcomes}
    \cup {<<a, b>> : a \in PropOutcomes, b \in PropOutcomes}
    \cup {<<a, a, b>> : a \in PropOutcomes, b \in PropOutcomes}
Run(tr, po, fs) ==
    [c |-> [tr |-> tr, now |-> StartClock, out |-> {}],
     po |-> po, fs |-> fs, calls |-> 0, fuel |-> MaxCalls]
UpdateDisplayRun ==
    \E tr \in DisplayStates, po \in PropOutcomes, fs \in FallbackOutcomes :
        LET r == updateDisplayRun(Run(tr, po, fs)) IN
        Call("updateDisplay", <<tr, po, fs>>,
             [calls |-> r.calls, returned |-> r.fuel > 0, tr |-> r.c.tr, out |-> r.c.out])

\* Offsets of local time from UTC, in hours, without daylight saving.
ZoneOffsets == {-6, 0, 3}
DayUnits == 100000000
\* A number of hours as a fraction of the day, in 1e-8 day.
hoursToFraction(h) == (h * 12500000) \div 3
daysIn(year) ==
    IF year % 4 = 0 /\ (year % 100 # 0 \/ year % 400 = 0) THEN 366 ELSE 365
\* new Date(epochStr) of an EPOCH written without a zone designator takes
\* the written fields as local time: the UTC getters of formatEpochFromJson
\* see them moved by the offset of the zone, the local getters of
\* formatEpochCorrect see them as written.
utcFields(epoch, zone) ==
    LET f == epoch.fraction - hoursToFraction(zone) IN
    IF f < 0
    THEN IF epoch.day = 1
         THEN [year |-> epoch.year - 1, day |-> daysIn(epoch.year - 1), fraction |-> f + DayUnits]
         ELSE [epoch EXCEPT !.day = @ - 1, !.fraction = f + DayUnits]
    ELSE IF f >= DayUnits
    THEN IF epoch.day = daysIn(epoch.year)
         THEN [year |-> epoch.year + 1, day |-> 1, fraction |-> f - DayUnits]
         ELSE [epoch EXCEPT !.day = @ + 1, !.fraction = f - DayUnits]
    ELSE [epoch EXCEPT !.fraction = f]

\* The line pair initialize() builds from a cached record, and the pair
\* fetchFromNetwork() builds from the same record, in one time zone.
cacheLines(tleData, zone) == <<generateTLE1(tleData), generateTLE2(tleData)>>
networkLines(tleData, zone) ==
    LET seen == [tleData EXCEPT !.EPOCH = utcFields(@, zone)] IN
    <<inlineTLE1(seen), inlineTLE2(seen)>>
EncodeBoth ==
    \E tleData \in TleRecords, zone \in ZoneOffsets :
        Call("encode", <<tleData, zone>>,
             [cache |-> cacheLines(tleData, zone), network |-> networkLines(tleData, zone)])

\* The caller has taken the result.
Return ==
    /\ calc # NoCalc
    /\ calc' = NoCalc
    /\ UNCHANGED <<clock, ticks, clicks, tsVars, cssVars>>

\* The functions called one after the other on arguments of bounded size.
NextPure ==
    \/ SplitOrbit
    \/ CssSplitOrbit
    \/ Normalize
    \/ DisplayLongitude
    \/ OrbitPointLongitude
    \/ UpdateOrbitPath
    \/ CssUpdateOrbitPath
    \/ OrbitEndPosition
    \/ GenerateTLE1
    \/ GenerateTLE2
    \/ InlineTLE
    \/ FormatScientific
    \/ FormatBstarFromJson
    \/ Period
    \/ UpdateDisplayRun
    \/ EncodeBoth
    \/ Return

SpecPure == Init /\ [][NextPure]_vars

RECURSIVE Flatten(_)
Flatten(segs) == IF segs = <<>> THEN <<>> ELSE Head(segs) \o Flatten(Tail(segs))
\* Index of the last point of each segment but the last.
RECURSIVE Boundaries(_, _)
Boundaries(segs, before) ==
    IF Len(segs) <= 1 THEN {}
    ELSE {before + Len(Head(segs))} \cup Boundaries(Tail(segs), before + Len(Head(segs)))
SplitOps == {"splitOrbitAtDateline", "cssSplitOrbitAtDateline"}

\* C21: splitOrbitAtDateline: the segments concatenated in order are the
\* input; no segment is empty; a boundary lies between two consecutive
\* points exactly when their longitudes differ by more than 180; empty
\* input gives no segment and a single point one singleton segment.
C21_SplitPreservesPath ==
    calc.op \in SplitOps =>
        /\ Flatten(calc.res) = calc.arg
        /\ \A k \in 1..Len(calc.res) : calc.res[k] # <<>>
        /\ Boundaries(calc.res, 0) =
              {i \in 1..(Len(calc.arg) - 1) :
                  Abs(calc.arg[i + 1][2] - calc.arg[i][2]) > 180}
        /\ (calc.arg = <<>> => calc.res = <<>>)
        /\ (Len(calc.arg) = 1 => calc.res = <<calc.arg>>)
\* A path with a step of exactly 180 and then a step of 181 has been split
\* once, after its second point.
C21_Witness ==
    /\ calc.op = "splitOrbitAtDateline"
    /\ calc.arg = <<<<0, 10>>, <<0, -170>>, <<40, 11>>>>
    /\ calc.res = <<<<<<0, 10>>, <<0, -170>>>>, <<<<40, 11>>>>>>

\* C22: normalize(x) = ((x + 180) mod 360 + 360) mod 360 - 180, with the
\* sign-preserving remainder, lies in [-180, 180) for every input, maps 180
\* to -180, and is idempotent.
C22_NormalizeRangeIdempotent ==
    calc.op = "normalize" =>
        /\ calc.res >= -180 /\ calc.res < 180
        /\ (calc.arg = 180 => calc.res = -180)
        /\ (calc.res - calc.arg) % 360 = 0
        /\ normalize(calc.res) = calc.res
\* A negative angle beyond one turn has been normalized.
C22_Witness == calc.op = "normalize" /\ calc.arg = -541 /\ calc.res = 179

LongitudeOps == {"displayLongitude", "orbitPointLongitude"}
\* C23: every longitude StationTracker exposes, in data-update events and in
\* orbit-path points, lies in [-180, 180) whatever angle the propagation
\* returns.
C23_ExposedLongitudeNormalized ==
    calc.op \in LongitudeOps => (calc.res >= -180 /\ calc.res < 180)

OrbitPathOps == {"updateOrbitPath", "cssUpdateOrbitPath"}
\* C24: the orbit path is sampled at 2-minute steps over 90 minutes: when
\* every sample propagates it has exactly 46 points, the first at the
\* instant of the call and the last 90 minutes later, and what is handed on
\* is the path split at the dateline.
C24_FortySixSamples ==
    (calc.op \in OrbitPathOps /\ calc.arg[2] = NoSample) =>
        /\ Len(calc.res.samples) = 46
        /\ calc.res.samples[1].minute = 0
        /\ calc.res.samples[Len(calc.res.samples)].minute = 90
        /\ \A k \in 1..(Len(calc.res.samples) - 1) :
               calc.res.samples[k + 1].minute = calc.res.samples[k].minute + 2
        /\ Flatten(calc.res.handed) = PointsOf(calc.res.samples)

\* C25: after updateOrbitPath has run, the query getOrbitEndPoint() gives
\* the last point of that path, so the consumer's end marker is on it.
C25_EndPointQueryable ==
    calc.op = "updateOrbitEndPosition" =>
        LET samples == calc.arg[2].samples IN
        calc.res = samples[Len(samples)].point

\* Width of a line of the two-line element format.
LineWidth == 69
\* C26: for every valid element record generateTLE1 and generateTLE2 each
\* produce a line of exactly 69 characters, whatever the field values.
C26_LinesHaveFixedWidth ==
    calc.op \in {"generateTLE1", "generateTLE2"} => Len(calc.res) = LineWidth

\* The field of a zero term: a space, five zeros, a zero exponent.
CanonicalZero == <<" ", "0", "0", "0", "0", "0", "-", "0">>
\* The drag field of an inline line 1: the eight characters before the
\* ephemeris type and the element set number.
DragField(line) == SubSeq(line, Len(line) - 15, Len(line) - 8)

\* C27 as stated: every encoder (formatScientific and formatBstarFromJson)
\* encodes a term of exactly zero as the 8-character field " 00000-0".
C27_ZeroIsCanonicalInEveryEncoder ==
    (calc.op \in {"formatScientific", "formatBstarFromJson"} /\ calc.arg = Zero)
        => calc.res = CanonicalZero

\* C27: a term of exactly zero is encoded by formatScientific as the
\* 8-character field " 00000-0"; formatBstarFromJson returns the seven
\* characters "00000-0" without the leading space, which the inline encoder
\* of fetchFromNetwork puts before them, so that the drag field of its line
\* is " 00000-0".
C27_ZeroTermEncoding ==
    /\ (calc.op = "formatScientific" /\ calc.arg = Zero) => calc.res = CanonicalZero
    /\ (calc.op = "formatBstarFromJson" /\ calc.arg = Zero) => calc.res = Tail(CanonicalZero)
    /\ (calc.op = "inlineTLE" /\ calc.arg.BSTAR = Zero) => DragField(calc.res[1]) = CanonicalZero
\* The inline encoder has encoded a record whose drag term is zero.
C27_Witness ==
    /\ calc.op = "inlineTLE" /\ calc.arg.BSTAR = Zero
    /\ DragField(calc.res[1]) = CanonicalZero

\* MEAN_MOTION of the configured ISS fallback record, 15.49112426.
issMeanMotion == 1549112426

\* C28 as stated: for mean motion 15.49112426 the reported period is 92.97.
C28_PeriodIs9297 ==
    (calc.op = "period" /\ calc.arg = issMeanMotion) => calc.res = <<"9", "2", ".", "9", "7">>

\* 1440 / MEAN_MOTION rounded to two decimals, for the mean motions
\* 15.49112426, 15.50103472 and 1.00270000.
RoundedPeriod(meanMotion) ==
    CASE meanMotion = 1549112426 -> <<"9", "2", ".", "9", "6">>
      [] meanMotion = 1550103472 -> <<"9", "2", ".", "9", "0">>
      [] meanMotion = 100270000 -> <<"1", "4", "3", "6", ".", "1", "2">>
\* C28: the period of a data-update event is 1440 divided by the mean
\* motion of the current element record, rendered to two decimals; for
\* mean motion 15.49112426 it is 92.96 minutes.
C28_PeriodFromMeanMotion ==
    calc.op = "period" => calc.res = RoundedPeriod(calc.arg)
\* The period of the ISS fallback record has been computed.
C28_Witness ==
    calc.op = "period" /\ calc.arg = issMeanMotion /\ calc.res = <<"9", "2", ".", "9", "6">>

\* The inclination (1e-4 degree), eccentricity (1e-7) and mean motion (1e-8
\* revolution a day) of the configured fallback records and of the known
\* valid lines of useFallbackData.
elementsOf(tle) ==
    CASE tle = "fallback_css" ->
            [INCLINATION |-> 414620, ECCENTRICITY |-> 0, MEAN_MOTION |-> 1550103472]
      [] tle = "known_css" ->
            [INCLINATION |-> 414650, ECCENTRICITY |-> 4208, MEAN_MOTION |-> 1558613121]
      [] tle = "fallback_iss" ->
            [INCLINATION |-> 516400, ECCENTRICITY |-> 5500, MEAN_MOTION |-> 1549112426]
      [] tle = "known_iss" ->
            [INCLINATION |-> 516400, ECCENTRICITY |-> 5500, MEAN_MOTION |-> 1549112426]

\* C29: after Fallback the propagation state in use is the one built from
\* the current element record, so the period, inclination and eccentricity
\* reported are those of the orbit being propagated.
C29_FallbackStateMatchesRecord ==
    \A s \in out :
        (s.kind = "status" /\ s.tag = "fallback") =>
            /\ Tracker(s).satrec.from = Tracker(s).currentTLE
            /\ elementsOf(Tracker(s).satrec.from) = elementsOf(Tracker(s).currentTLE)

\* C30: the cache record of a station is written exactly when a network
\* fetch succeeds, each write replacing the record and its timestamp; a
\* cache hit, a failed fetch and Fallback never write: a record is stored
\* only on a step that received a usable response, and a fetch that ends in
\* Fallback has not left the record it received in the cache.
C30_CacheWrittenOnlyBySuccess ==
    [][/\ \A st \in StationTypes :
              store'[st] # store[st] =>
                  \E e \in out' : /\ e.kind = "response" /\ e.tag \notin FailedResponses
                                  /\ store'[st] = [tle |-> e.tag, timestamp |-> clock]
       /\ \A f \in Suspended :
              (FetchSaved(f) /\ \E s \in out' : s.t = f.t /\ s.kind = "status"
                                                /\ s.tag = "fallback") =>
                  store[trackers[f.t].stationType].tle # trackers[f.t].currentTLE]_vars

\* C31: cache entries are isolated per tracked object: a step that changes
\* the record or timestamp stored for a station is a successful set issued by
\* a tracker of that station, a handler resumed for a tracker of one station
\* leaves the other station's record alone, and what a get hands back is the
\* record of the asking tracker's own station; also while trackers of both
\* stations run interleaved during a station switch.
C31_CacheIsolatedPerStation ==
    /\ [][\A st \in StationTypes :
             store'[st] # store[st] =>
                 \E e \in out' : /\ e.kind = "set" /\ e.type = "ok"
                                 /\ trackers'[e.t].stationType = st
                                 /\ store'[st] = [tle |-> e.tag, timestamp |-> e.val]]_vars
    /\ [][\A f \in Suspended :
             FetchResponse(f) =>
                 \A st \in StationTypes \ {trackers[f.t].stationType} :
                     store'[st] = store[st]]_vars
    /\ [](\A e \in out :
             (e.kind = "get" /\ e.tag # NoTle) =>
                 store[Station(e)] = [tle |-> e.tag, timestamp |-> e.val])
\* The tracker of the station left behind has just stored its record while
\* the store already holds the record the new station's tracker fetched.
C31_Witness ==
    /\ Len(trackers) = 2
    /\ \E e \in out : /\ e.kind = "set" /\ e.type = "ok" /\ e.t = 1
                      /\ store[trackers[1].stationType].tle = e.tag
    /\ store[trackers[2].stationType].tle # NoTle
    /\ trackers[1].stationType # trackers[2].stationType

\* C32: at every redisplay tick the propagation state the position is
\* computed from was built from the element record current at that tick: no
\* timer callback runs between the assignment of a new currentTLE in
\* fetchFromNetwork and the rebuild of satrec, so no timer of a tracker is
\* active while one of its fetches awaits saveToCache, and a data-update
\* event of a tick never pairs a position of one record with the orbital
\* parameters of another.
C32_TickStateBuiltFromCurrentRecord ==
    /\ [](\A f \in Suspended :
             f.pc = "save" =>
                 /\ trackers[f.t].live.auto = 0
                 /\ trackers[f.t].live.label = 0)
    /\ [][\A t \in 1..Len(trackers) :
             (AutoTick(t) \/ LabelTick(t)) =>
                 \A e \in out' : (e.t = t /\ e.kind = "data") => e.tag = e.type]_vars

\* C36: every invocation of updateDisplay terminates: the mutual calls of
\* updateDisplay and useFallbackData end before MaxCalls calls have been
\* made, for every outcome of propagation, also when the known valid lines
\* themselves cannot be propagated.
C36_UpdateDisplayTerminates ==
    calc.op = "updateDisplay" => (calc.res.returned /\ calc.res.calls < MaxCalls)
\* updateDisplay has fallen back on lines that cannot be propagated either,
\* and has returned.
C36_Witness ==
    /\ calc.op = "updateDisplay"
    /\ calc.arg[2] = "err" /\ calc.arg[3] = <<"err">>
    /\ calc.arg[1].satrec = twoline2satrec("netA")
    /\ calc.res.returned /\ calc.res.calls >= 4
    /\ calc.res.tr.satrec.error # 0

\* C33: the cache of StationTracker only ever holds an element record from
\* which a propagation state with validity code 0 was built: a fetched
\* record whose state fails validation is not stored, and no cache hit of a
\* later initialize() hands such a record back.
C33_CacheHoldsOnlyValidRecords ==
    /\ \A st \in StationTypes :
           store[st].tle # NoTle => twoline2satrec(store[st].tle).error = 0
    /\ \A e \in out :
           (e.kind = "get" /\ e.tag # NoTle) => twoline2satrec(e.tag).error = 0

(***************************************************************************)
(* A forced refresh overlapping a periodic one.                            *)
(***************************************************************************)
\* The refresh button is clicked while the request of the periodic refresh
\* of the current tracker is under way: the forced fetch starts later.
ForceDuringRefresh ==
    /\ \E f \in Suspended : f.t = Current /\ f.origin = "timer"
    /\ ForceRefresh

\* One page on which the button is clicked only during a periodic refresh.
NextOverlap ==
    \/ \E t \in 1..Len(trackers) : InitCacheDone(t)
    \/ \E f \in Suspended : FetchResponse(f)
    \/ \E f \in Suspended : FetchSaved(f)
    \/ ForceDuringRefresh
    \/ \E t \in 1..Len(trackers) : TleTimerFire(t)
    \/ \E t \in 1..Len(trackers) : AutoTick(t)
    \/ \E t \in 1..Len(trackers) : LabelTick(t)
    \/ \E d \in ClockSteps : Advance(d)

SpecOverlap == Init /\ [][NextOverlap]_vars

\* The forced fetch of tracker t, started during the periodic refresh, has
\* completed with success: it is no longer suspended, and the propagation
\* state is a valid one built from a fetched record at the present instant,
\* at which the periodic fetch has not completed yet.
LaterFetchSucceeded(t) ==
    /\ clicks > 0
    /\ \A f \in Suspended : f.t = t => f.origin = "timer"
    /\ trackers[t].tleTimestamp = clock
    /\ trackers[t].satrec.from \in NetTles
    /\ trackers[t].satrec.error = 0

\* C34: when a periodic and a forced fetch of one tracker overlap and both
\* succeed, what remains after both have completed is what the fetch that
\* was started later installed, whatever the order of the responses: the
\* completion of the periodic fetch after the forced one leaves the element
\* record and the propagation state of the forced fetch in place.
C34_LaterStartedFetchWins ==
    [][\A f \in Suspended :
          (/\ f.origin = "timer"
           /\ FetchSaved(f)
           /\ LaterFetchSucceeded(f.t)
           /\ \E s \in out' : s.t = f.t /\ s.kind = "status" /\ s.tag = "fetch_ok") =>
              /\ trackers'[f.t].satrec.from = trackers[f.t].satrec.from
              /\ trackers'[f.t].currentTLE = trackers[f.t].satrec.from]_vars

\* C35: state unchanged on fetch error: when a fetch of a Ready tracker fails
\* (the request throws, the status is not ok, or the body is not a non-empty
\* array), the element record, the propagation state, the timestamp, the
\* cache and the three timers are as they were, no data-update event is
\* emitted, and the only status emitted is the one of type error of
\* forceRefresh.
C35_FetchErrorLeavesState ==
    [][\A f \in Suspended :
          (/\ FetchResponse(f)
           /\ Ready(f.t)
           /\ \E e \in out' : e.kind = "response" /\ e.tag \in FailedResponses) =>
              /\ trackers' = trackers
              /\ store' = store
              /\ \A e \in out' : e.kind \notin {"data", "request", "set"}
              /\ \A e \in out' : e.kind = "status" => (e.type = "error" /\ f.origin = "force")
              /\ f.origin = "force" => HasStatus(f.t, "refresh_fail", "error")']_vars

\* C37: the two encoders of StationTracker agree: for every element record
\* and in every time zone the line pair built on the cache-hit path equals
\* the line pair built inline on the network path.
C37_EncodersAgree ==
    calc.op = "encode" => calc.res.cache = calc.res.network

====
